---- MODULE Spec2Model ----
(***************************************************************************)
(* A model of the dabir Markdown conversion engine.                        *)
(*                                                                         *)
(* JavaScript strings are sequences of tokens.  A token is one character   *)
(* (a, *, space, newline, ...) or one piece of text that the code only ever *)
(* writes or matches as a whole: a tag the code emits (<strong>), an     *)
(* entity (&lt;), U for the two underscores __ and D for               *)
(* DABIR_CODE_PLACEHOLDER_.    Array indices keep their JavaScript values  *)
(* (0-based); sequence positions are 1-based.                              *)
(***************************************************************************)
EXTENDS Integers, Sequences, FiniteSets, TLC

\* ------------------------------------------------------------------------
\* Strings
\* ------------------------------------------------------------------------

\* The characters \s matches and trim() removes.
WS == {" ", "\t", "\n"}

\* The backtick character.
BT == "bt"

\* \d
AsciiDigits == {"0", "1", "2", "3", "4", "5", "6", "7", "8", "9"}

\* [\d and the Eastern Arabic-Indic range]: fa1 stands for an Eastern Arabic-Indic digit.
ListDigits == AsciiDigits \cup {"fa1"}

Drop(s, n) == SubSeq(s, n + 1, Len(s))

Take(s, n) == SubSeq(s, 1, n)

StartsWith(s, p) == Len(s) >= Len(p) /\ SubSeq(s, 1, Len(p)) = p

EndsWith(s, p) == Len(s) >= Len(p) /\ SubSeq(s, Len(s) - Len(p) + 1, Len(s)) = p

\* Smallest member of a non-empty set of integers.
Min(S) == CHOOSE x \in S : \A y \in S : x <= y

Max(S) == CHOOSE x \in S : \A y \in S : x >= y

\* First position >= from holding token c, or 0.
IndexFrom(s, c, from) ==
    LET hits == {k \in from..Len(s) : s[k] = c}
    IN IF hits = {} THEN 0 ELSE Min(hits)

\* line.match(/^\s*/)[0].length
LeadingWs(s) ==
    LET stop == {k \in 1..Len(s) : s[k] \notin WS}
    IN IF stop = {} THEN Len(s) ELSE Min(stop) - 1

TrailingWs(s) ==
    LET stop == {k \in 1..Len(s) : s[k] \notin WS}
    IN IF stop = {} THEN Len(s) ELSE Len(s) - Max(stop)

\* String.prototype.trim
Trim(s) ==
    IF LeadingWs(s) = Len(s) THEN <<>>
    ELSE SubSeq(s, LeadingWs(s) + 1, Len(s) - TrailingWs(s))

RECURSIVE Flat(_)
\* Concatenation of a sequence of strings.
Flat(ss) == IF ss = <<>> THEN <<>> ELSE Head(ss) \o Flat(Tail(ss))

RECURSIVE Join(_, _)
\* Array.prototype.join
Join(ss, sep) ==
    IF ss = <<>> THEN <<>>
    ELSE IF Len(ss) = 1 THEN ss[1]
    ELSE ss[1] \o sep \o Join(Tail(ss), sep)

RECURSIVE Split(_, _)
\* String.prototype.split on a one-character separator.
Split(s, c) ==
    LET k == IndexFrom(s, c, 1)
    IN IF k = 0 THEN <<s>> ELSE <<Take(s, k - 1)>> \o Split(Drop(s, k), c)

RECURSIVE Spaces(_)
Spaces(n) == IF n <= 0 THEN <<>> ELSE <<" ">> \o Spaces(n - 1)

DigitTok(d) == <<"0", "1", "2", "3", "4", "5", "6", "7", "8", "9">>[d + 1]

DigitVal(c) == CHOOSE d \in 0..9 : DigitTok(d) = c

RECURSIVE NumToStr(_)
\* `${n}` for a non-negative integer.
NumToStr(n) == IF n < 10 THEN <<DigitTok(n)>> ELSE NumToStr(n \div 10) \o <<DigitTok(n % 10)>>

RECURSIVE ParseInt(_)
\* parseInt(digits, 10) for a non-empty run of ASCII digits.
ParseInt(ds) ==
    IF Len(ds) = 1 THEN DigitVal(ds[1])
    ELSE 10 * ParseInt(Take(ds, Len(ds) - 1)) + DigitVal(ds[Len(ds)])

\* End position of the maximal run of tokens of class C starting at from
\* (from - 1 when s[from] is not in C).
RunEnd(s, C, from) ==
    LET stop == {k \in from..Len(s) : s[k] \notin C}
    IN IF stop = {} THEN Len(s) ELSE Min(stop) - 1

\* ------------------------------------------------------------------------
\* Inline span parser (parseInline)
\* ------------------------------------------------------------------------

\* `__DABIR_CODE_PLACEHOLDER_${codeBlocks.length}__`
Placeholder(n) == <<"U", "D">> \o NumToStr(n) \o <<"U">>

EscapeTok(c) ==
    IF c = "&" THEN "&amp;" ELSE IF c = "<" THEN "&lt;" ELSE IF c = ">" THEN "&gt;" ELSE c

\* codeContent.replace(/&/g,'&amp;').replace(/</g,'&lt;').replace(/>/g,'&gt;')
EscapeCode(content) == [k \in 1..Len(content) |-> EscapeTok(content[k])]

RECURSIVE ExtractFrom(_, _, _, _)
ExtractFrom(text, p, out, blocks) ==
    IF p > Len(text) THEN [out |-> out, blocks |-> blocks]
    ELSE LET q == IF text[p] = BT THEN IndexFrom(text, BT, p + 1) ELSE 0
         IN IF q >= p + 2
            THEN ExtractFrom(text, q + 1, out \o Placeholder(Len(blocks)),
                             Append(blocks, EscapeCode(SubSeq(text, p + 1, q - 1))))
            ELSE ExtractFrom(text, p + 1, Append(out, text[p]), blocks)

\* Step 1: text.replace(/`([^`]+?)`/g, ...) with its codeBlocks side effect.
ExtractCode(text) == ExtractFrom(text, 1, <<>>, <<>>)

RECURSIVE LinkFrom(_, _, _)
LinkFrom(s, p, out) ==
    IF p > Len(s) THEN out
    ELSE LET q == IF s[p] = "[" THEN IndexFrom(s, "]", p + 1) ELSE 0
             r == IF q >= p + 2 /\ q + 1 <= Len(s) /\ s[q + 1] = "("
                  THEN IndexFrom(s, ")", q + 2) ELSE 0
         IN IF q >= p + 2 /\ r >= q + 3
            THEN LinkFrom(s, r + 1,
                     out \o <<"<a href=">> \o SubSeq(s, q + 2, r - 1) \o <<" target=_blank>">>
                         \o SubSeq(s, p + 1, q - 1) \o <<"</a>">>)
            ELSE LinkFrom(s, p + 1, Append(out, s[p]))

\* .replace(/\[([^\]]+)\]\(([^)]+)\)/g, '<a href=$2 target=_blank>$1</a>')
ReplaceLink(s) == LinkFrom(s, 1, <<>>)

\* Position of the closing pair dd of /dd(.+?)dd/ opened at p, or 0.
PairClose(s, d, p) ==
    LET ok == {q \in (p + 3)..(Len(s) - 1) :
                  /\ s[q] = d /\ s[q + 1] = d
                  /\ \A k \in (p + 2)..(q - 1) : s[k] # "\n"}
    IN IF ok = {} THEN 0 ELSE Min(ok)

RECURSIVE PairFrom(_, _, _, _, _, _)
PairFrom(s, d, open, close, p, out) ==
    IF p > Len(s) THEN out
    ELSE LET q == IF s[p] = d /\ p + 1 <= Len(s) /\ s[p + 1] = d THEN PairClose(s, d, p) ELSE 0
         IN IF q > 0
            THEN PairFrom(s, d, open, close, q + 2,
                          out \o <<open>> \o SubSeq(s, p + 2, q - 1) \o <<close>>)
            ELSE PairFrom(s, d, open, close, p + 1, Append(out, s[p]))

\* .replace(/\*\*(.+?)\*\*/g, '<strong>$1</strong>')
ReplaceBold(s) == PairFrom(s, "*", "<strong>", "</strong>", 1, <<>>)

\* .replace(/~~(.+?)~~/g, '<del>$1</del>')
ReplaceStrike(s) == PairFrom(s, "~", "<del>", "</del>", 1, <<>>)

\* .replace(/==(.+?)==/g, '<mark>$1</mark>')
ReplaceHighlight(s) == PairFrom(s, "=", "<mark>", "</mark>", 1, <<>>)

\* Position of the closing * of /(?<!\*)\*(.+?)\*(?!\*)/ opened at p, or 0.
ItalicClose(s, p) ==
    LET ok == {q \in (p + 2)..Len(s) :
                  /\ s[q] = "*"
                  /\ (q = Len(s) \/ s[q + 1] # "*")
                  /\ \A k \in (p + 1)..(q - 1) : s[k] # "\n"}
    IN IF ok = {} THEN 0 ELSE Min(ok)

RECURSIVE ItalicFrom(_, _, _)
ItalicFrom(s, p, out) ==
    IF p > Len(s) THEN out
    ELSE LET q == IF s[p] = "*" /\ (p = 1 \/ s[p - 1] # "*") THEN ItalicClose(s, p) ELSE 0
         IN IF q > 0
            THEN ItalicFrom(s, q + 1, out \o <<"<em>">> \o SubSeq(s, p + 1, q - 1) \o <<"</em>">>)
            ELSE ItalicFrom(s, p + 1, Append(out, s[p]))

\* .replace(/(?<!\*)\*(.+?)\*(?!\*)/g, '<em>$1</em>')
ReplaceItalic(s) == ItalicFrom(s, 1, <<>>)

\* Step 2: the chain of substitutions, in the code's order.
Substitute(s) ==
    ReplaceHighlight(ReplaceStrike(ReplaceItalic(ReplaceBold(ReplaceLink(s)))))

\* codeBlocks[parseInt(index, 10)] inside a template literal.
BlockAt(blocks, n) == IF n + 1 <= Len(blocks) THEN blocks[n + 1] ELSE <<"undefined">>

RECURSIVE RestoreFrom(_, _, _, _)
RestoreFrom(s, blocks, p, out) ==
    IF p > Len(s) THEN out
    ELSE LET e == IF s[p] = "U" /\ p + 1 <= Len(s) /\ s[p + 1] = "D"
                  THEN RunEnd(s, AsciiDigits, p + 2) ELSE 0
             hit == e >= p + 2 /\ e + 1 <= Len(s) /\ s[e + 1] = "U"
         IN IF hit
            THEN RestoreFrom(s, blocks, e + 2,
                     out \o <<"<code>">> \o BlockAt(blocks, ParseInt(SubSeq(s, p + 2, e)))
                         \o <<"</code>">>)
            ELSE RestoreFrom(s, blocks, p + 1, Append(out, s[p]))

\* Step 3: .replace(/__DABIR_CODE_PLACEHOLDER_(\d+)__/g, ...)
RestoreCode(s, blocks) == RestoreFrom(s, blocks, 1, <<>>)

\* parseInline(text) when no step faults.
parseInline(text) ==
    IF text = <<>> THEN <<>>
    ELSE LET x == ExtractCode(text)
         IN RestoreCode(Substitute(x.out), x.blocks)

\* The catch block of parseInline: what the caller gets after a fault, given
\* the original text and the half-processed text.
CatchInlineLosesText(text, processedText) == [ret |-> processedText, threw |-> FALSE]

CatchInline(text, processedText) == [ret |-> text, threw |-> FALSE]

\* Inputs of parseInline: up to MaxSegs pieces of InlineSegs, concatenated.
MaxSegs == 4

InlineSegs ==
    { <<"a">>, <<"*">>, <<BT>>, <<"<">>, <<"&">>,
      <<"U", "D", "0", "U">>, <<"U", "D", "1">> }

InlineTexts == {Flat(ss) : ss \in UNION {[1..n -> InlineSegs] : n \in 0..MaxSegs}}

VARIABLES
    i_text,      \* the argument of the call
    i_pc,        \* "call", "extracted", "substituted", "done"; "off" outside SpecInline
    i_proc,      \* processedText
    i_blocks,    \* codeBlocks
    i_ret,       \* the value returned
    i_entered,   \* the try block was entered
    i_fault,     \* a step of the pipeline failed
    i_threw      \* an exception reached the caller

inlVars == <<i_text, i_pc, i_proc, i_blocks, i_ret, i_entered, i_fault, i_threw>>

InlIdle ==
    /\ i_text = <<>> /\ i_pc = "off" /\ i_proc = <<>> /\ i_blocks = <<>>
    /\ i_ret = <<>> /\ i_entered = FALSE /\ i_fault = FALSE /\ i_threw = FALSE

InlInit ==
    /\ i_text \in InlineTexts
    /\ i_pc = "call" /\ i_proc = <<>> /\ i_blocks = <<>>
    /\ i_ret = <<>> /\ i_entered = FALSE /\ i_fault = FALSE /\ i_threw = FALSE

\* A step of the pipeline fails: control passes to the catch block.
InlFail ==
    /\ i_pc \in {"extracted", "substituted"} \/ (i_pc = "call" /\ i_text # <<>>)
    /\ i_pc' = "done"
    /\ i_entered' = TRUE
    /\ i_fault' = TRUE
    /\ i_ret' = CatchInline(i_text, i_proc).ret
    /\ i_threw' = CatchInline(i_text, i_proc).threw
    /\ UNCHANGED <<i_text, i_proc, i_blocks>>

\* if (!text) return '';
InlEmpty ==
    /\ i_pc = "call" /\ i_text = <<>>
    /\ i_pc' = "done" /\ i_ret' = <<>>
    /\ UNCHANGED <<i_text, i_proc, i_blocks, i_entered, i_fault, i_threw>>

\* Step 1.
InlExtract ==
    /\ i_pc = "call" /\ i_text # <<>>
    /\ i_pc' = "extracted"
    /\ i_entered' = TRUE
    /\ i_proc' = ExtractCode(i_text).out
    /\ i_blocks' = ExtractCode(i_text).blocks
    /\ UNCHANGED <<i_text, i_ret, i_fault, i_threw>>

\* Step 2.
InlSubstitute ==
    /\ i_pc = "extracted"
    /\ i_pc' = "substituted"
    /\ i_proc' = Substitute(i_proc)
    /\ UNCHANGED <<i_text, i_blocks, i_ret, i_entered, i_fault, i_threw>>

\* Step 3 and the return.
InlRestore ==
    /\ i_pc = "substituted"
    /\ i_pc' = "done"
    /\ i_proc' = RestoreCode(i_proc, i_blocks)
    /\ i_ret' = RestoreCode(i_proc, i_blocks)
    /\ UNCHANGED <<i_text, i_blocks, i_entered, i_fault, i_threw>>

InlNext == InlFail \/ InlEmpty \/ InlExtract \/ InlSubstitute \/ InlRestore

\* Inputs with link, emphasis and strikethrough syntax: up to MaxMarkupSegs
\* pieces of MarkupSegs, concatenated.
MaxMarkupSegs == 5

MarkupSegs == { <<"a">>, <<"*">>, <<"~", "~">>, <<"[", "a", "]", "(">>, <<")">> }

MarkupTexts == {Flat(ss) : ss \in UNION {[1..n -> MarkupSegs] : n \in 0..MaxMarkupSegs}}

InlMarkupInit ==
    /\ i_text \in MarkupTexts
    /\ i_pc = "call" /\ i_proc = <<>> /\ i_blocks = <<>>
    /\ i_ret = <<>> /\ i_entered = FALSE /\ i_fault = FALSE /\ i_threw = FALSE

\* ------------------------------------------------------------------------
\* Block parser (processListBlock, parseBlock)
\* ------------------------------------------------------------------------

MAX_DEPTH == 5

None == [kind |-> "none"]

Thrown == [kind |-> "throw"]

Block(html, lastIndex, rule) ==
    [kind |-> "block", html |-> html, lastIndex |-> lastIndex, rule |-> rule]

\* trimmed.match(/^([-*]|[\d and Eastern Arabic-Indic digits]+\.) (.*)/):
\* [ok, marker (group 1), content (group 2)].
ListMatch(trimmed) ==
    LET e == RunEnd(trimmed, ListDigits, 1)
    IN IF Len(trimmed) >= 2 /\ trimmed[1] \in {"-", "*"} /\ trimmed[2] = " "
       THEN [ok |-> TRUE, marker |-> Take(trimmed, 1), content |-> Drop(trimmed, 2)]
       ELSE IF e >= 1 /\ Len(trimmed) >= e + 2 /\ trimmed[e + 1] = "." /\ trimmed[e + 2] = " "
       THEN [ok |-> TRUE, marker |-> Take(trimmed, e + 1), content |-> Drop(trimmed, e + 2)]
       ELSE [ok |-> FALSE, marker |-> <<>>, content |-> <<>>]

\* /[-*]/.test(match[1]) ? 'ul' : 'ol'
MarkerType(marker) ==
    IF \E k \in 1..Len(marker) : marker[k] \in {"-", "*"} THEN "ul" ELSE "ol"

Unchecked == <<"[", " ", "]", " ">>

Checked == <<"[", "x", "]", " ">>

\* content.startsWith('[ ] ') || content.startsWith('[x] ')
IsChecklist(content) == StartsWith(content, Unchecked) \/ StartsWith(content, Checked)

OpenTag(type, isChecklist) ==
    IF type = "ul"
    THEN (IF isChecklist THEN "<ul class=checklist>" ELSE "<ul>")
    ELSE (IF isChecklist THEN "<ol class=checklist>" ELSE "<ol>")

CloseTag(type) == IF type = "ul" THEN "</ul>" ELSE "</ol>"

Top(stack) == stack[Len(stack)]

Pop(stack) == SubSeq(stack, 1, Len(stack) - 1)

\* A mutation of the closing loop at the head of a pass: nothing is popped.
PopDeeperNone(stack, html, indent) == [stack |-> stack, html |-> html]

RECURSIVE PopDeeper(_, _, _)
\* while (stack.length > 0 && indent < top.indent) html += `</${stack.pop().type}>`
PopDeeper(stack, html, indent) ==
    IF Len(stack) > 0 /\ indent < Top(stack).indent
    THEN PopDeeper(Pop(stack), Append(html, CloseTag(Top(stack).type)), indent)
    ELSE [stack |-> stack, html |-> html]

\* The if that opens a list: pushes a frame, after closing the top one on a
\* change of marker type.
OpenLevelNoSwap(stack, html, type, indent, isChecklist) ==
    IF \/ Len(stack) = 0
       \/ (indent > Top(stack).indent /\ Len(stack) < MAX_DEPTH)
    THEN [stack |-> Append(stack, [type |-> type, indent |-> indent]),
          html |-> Append(html, OpenTag(type, isChecklist))]
    ELSE [stack |-> stack, html |-> html]

OpenLevelNoCap(stack, html, type, indent, isChecklist) ==
    IF \/ Len(stack) = 0
       \/ indent > Top(stack).indent
       \/ (Len(stack) > 0 /\ type # Top(stack).type)
    THEN LET swap == Len(stack) > 0 /\ type # Top(stack).type
             s1 == IF swap THEN Pop(stack) ELSE stack
             h1 == IF swap THEN Append(html, CloseTag(Top(stack).type)) ELSE html
         IN [stack |-> Append(s1, [type |-> type, indent |-> indent]),
             html |-> Append(h1, OpenTag(type, isChecklist))]
    ELSE [stack |-> stack, html |-> html]

OpenLevel(stack, html, type, indent, isChecklist) ==
    IF \/ Len(stack) = 0
       \/ (indent > Top(stack).indent /\ Len(stack) < MAX_DEPTH)
       \/ (Len(stack) > 0 /\ type # Top(stack).type)
    THEN LET swap == Len(stack) > 0 /\ type # Top(stack).type
             s1 == IF swap THEN Pop(stack) ELSE stack
             h1 == IF swap THEN Append(html, CloseTag(Top(stack).type)) ELSE html
         IN [stack |-> Append(s1, [type |-> type, indent |-> indent]),
             html |-> Append(h1, OpenTag(type, isChecklist))]
    ELSE [stack |-> stack, html |-> html]

\* The <li> of one item.
ItemHtml(content) ==
    IF IsChecklist(content)
    THEN LET isChecked == StartsWith(content, Checked)
         IN << IF isChecked THEN "<li class=checklist-item checked>"
                            ELSE "<li class=checklist-item>",
               "<div class=checklist-content-wrapper>",
               IF isChecked THEN "<input type=checkbox checked>" ELSE "<input type=checkbox>",
               "<span>" >>
            \o parseInline(Drop(content, 4))
            \o <<"</span>", "</div>", "</li>">>
    ELSE <<"<li>">> \o parseInline(content) \o <<"</li>">>

\* One pass of the while loop of processListBlock over a line that matches:
\* the new stack and html.
ListStep(stack, html, line) ==
    LET m == ListMatch(Trim(line))
        indent == LeadingWs(line)
        popped == PopDeeper(stack, html, indent)
        opened == OpenLevel(popped.stack, popped.html, MarkerType(m.marker), indent,
                            IsChecklist(m.content))
    IN [stack |-> opened.stack, html |-> opened.html \o ItemHtml(m.content)]

\* A mutation of the closing loop: the frames left are not closed.
CloseAllNone(stack, html) == html

RECURSIVE CloseAll(_, _)
\* while (stack.length > 0) html += `</${stack.pop().type}>`
CloseAll(stack, html) ==
    IF Len(stack) > 0 THEN CloseAll(Pop(stack), Append(html, CloseTag(Top(stack).type)))
    ELSE html

RECURSIVE ListLoop(_, _, _, _)
ListLoop(lines, i, stack, html) ==
    IF i < Len(lines) /\ ListMatch(Trim(lines[i + 1])).ok
    THEN LET st == ListStep(stack, html, lines[i + 1])
         IN ListLoop(lines, i + 1, st.stack, st.html)
    ELSE Block(CloseAll(stack, html), i - 1, "list")

processListBlock(lines, startIndex) == ListLoop(lines, startIndex, <<>>, <<>>)

\* line.match(/^(#{1,4}) (.*)/): the heading level, or 0.
HeadingLevel(line) ==
    LET h == RunEnd(line, {"#"}, 1)
    IN IF h >= 1 /\ h <= 4 /\ Len(line) >= h + 1 /\ line[h + 1] = " " THEN h ELSE 0

HeadingOpen(level) == <<"<h1>", "<h2>", "<h3>", "<h4>">>[level]

HeadingClose(level) == <<"</h1>", "</h2>", "</h3>", "</h4>">>[level]

\* line.match(/^!\[([^\]]*)\]\(([^)]+)\)$/): [ok, alt, src].
ImageMatch(line) ==
    LET q == IF Len(line) >= 2 /\ line[1] = "!" /\ line[2] = "[" THEN IndexFrom(line, "]", 3) ELSE 0
        r == IF q > 0 /\ Len(line) >= q + 1 /\ line[q + 1] = "(" THEN IndexFrom(line, ")", q + 2)
             ELSE 0
    IN IF q > 0 /\ r >= q + 3 /\ r = Len(line)
       THEN [ok |-> TRUE, alt |-> SubSeq(line, 3, q - 1), src |-> SubSeq(line, q + 2, r - 1)]
       ELSE [ok |-> FALSE, alt |-> <<>>, src |-> <<>>]

\* `<figure><img src="${src}" alt="${alt}">${figcaption}</figure>`
ImageHtml(m) ==
    <<"<figure>", "<img src=">> \o m.src \o <<" alt=">> \o m.alt \o <<"/img>">>
    \o (IF m.alt # <<>> THEN <<"<figcaption>">> \o m.alt \o <<"</figcaption>">> ELSE <<>>)
    \o <<"</figure>">>

\* /^(\s*[-*]|\s*[\d and Eastern Arabic-Indic digits]+\.) /.test(line)
ListTest(line) ==
    LET w == LeadingWs(line)
        e == RunEnd(line, ListDigits, w + 1)
    IN \/ (Len(line) >= w + 2 /\ line[w + 1] \in {"-", "*"} /\ line[w + 2] = " ")
       \/ (e >= w + 1 /\ Len(line) >= e + 2 /\ line[e + 1] = "." /\ line[e + 2] = " ")

Fence == <<BT, BT, BT>>

QuoteMark == <<">", " ">>

RECURSIVE QuoteLoop(_, _, _)
\* The while loop of the blockquote rule.
QuoteLoop(lines, i, html) ==
    IF i < Len(lines) /\ StartsWith(lines[i + 1], QuoteMark)
    THEN LET c == parseInline(Drop(lines[i + 1], 2))
         IN QuoteLoop(lines, i + 1,
                html \o <<"<div>">> \o (IF c = <<>> THEN <<"<br>">> ELSE c) \o <<"</div>">>)
    ELSE Block(Append(html, "</blockquote>"), i - 1, "blockquote")

RECURSIVE FenceLoop(_, _, _)
\* The while loop of the code block rule: [codeContent, i].
FenceLoop(lines, i, codeContent) ==
    IF i < Len(lines) /\ ~StartsWith(Trim(lines[i + 1]), Fence)
    THEN FenceLoop(lines, i + 1, codeContent \o lines[i + 1] \o <<"\n">>)
    ELSE [code |-> codeContent, i |-> i]

EscapeAngleTok(c) == IF c = "<" THEN "&lt;" ELSE IF c = ">" THEN "&gt;" ELSE c

\* codeContent.replace(/</g, "&lt;").replace(/>/g, "&gt;")
EscapeAngle(code) == [k \in 1..Len(code) |-> EscapeAngleTok(code[k])]

\* The copy button markup.
CopyButton ==
    <<"<button class=copy-code-btn>", "<svg>", "</svg>", "<span>", "copy", "</span>", "</button>">>

CodeBlockHtml(escapedCode) ==
    <<"<div class=code-block-wrapper>">> \o CopyButton \o <<"<pre>", "<code>">>
    \o escapedCode \o <<"</code>", "</pre>", "</div>">>

\* The try block of parseBlock.  lines[currentIndex] is undefined outside the
\* array and line.match then throws; fault is a simulated internal fault.
ParseBlockTry(lines, currentIndex, fault) ==
    IF fault \/ currentIndex < 0 \/ currentIndex >= Len(lines) THEN Thrown
    ELSE LET line == lines[currentIndex + 1]
             level == HeadingLevel(line)
             img == ImageMatch(line)
             fl == FenceLoop(lines, currentIndex + 1, <<>>)
         IN IF level > 0
            THEN Block(<<HeadingOpen(level)>> \o parseInline(Drop(line, level + 1))
                           \o <<HeadingClose(level)>>, currentIndex, "heading")
            ELSE IF Trim(line) = <<"-", "-", "-">>
            THEN Block(<<"<hr>">>, currentIndex, "rule")
            ELSE IF StartsWith(line, QuoteMark)
            THEN QuoteLoop(lines, currentIndex, <<"<blockquote>">>)
            ELSE IF img.ok
            THEN Block(ImageHtml(img), currentIndex, "image")
            ELSE IF ListTest(line)
            THEN processListBlock(lines, currentIndex)
            ELSE IF StartsWith(Trim(line), Fence)
            THEN Block(CodeBlockHtml(EscapeAngle(fl.code)), fl.i, "code")
            ELSE None

\* The catch block of parseBlock.
CatchParseBlockRethrows(r) == r

CatchParseBlock(r) == IF r.kind = "throw" THEN None ELSE r

parseBlock(lines, currentIndex, fault) == CatchParseBlock(ParseBlockTry(lines, currentIndex, fault))

\* ------------------------------------------------------------------------
\* processListBlock, one line at a time
\* ------------------------------------------------------------------------

\* Lines offered to the list loop: an indent of 0..MaxIndent spaces, a
\* marker, a space, an optional checklist marker and a letter.
MaxIndent == 5

ListMarkers == { <<"-">>, <<"1", ".">> }

ListLineOf(indent, marker) == Spaces(indent) \o marker \o <<" ", "a">>

ListOpenTags == {"<ul>", "<ul class=checklist>", "<ol>", "<ol class=checklist>"}

ListCloseTags == {"</ul>", "</ol>"}

RECURSIVE FoldOpen(_, _)
\* The list tags left open by html appended to markup whose open list tags
\* are open (innermost last).
FoldOpen(open, html) ==
    IF html = <<>> THEN open
    ELSE IF Head(html) \in ListOpenTags THEN FoldOpen(Append(open, Head(html)), Tail(html))
    ELSE IF Head(html) \in ListCloseTags /\ open # <<>>
    THEN FoldOpen(SubSeq(open, 1, Len(open) - 1), Tail(html))
    ELSE FoldOpen(open, Tail(html))

VARIABLES
    l_pc,      \* "loop", "done"; "off" outside SpecList
    l_stack,   \* stack
    l_chunk,   \* what the last pass appended to html
    l_open,    \* the list tags open in html, innermost last
    l_line,    \* the line of the last pass
    l_pre      \* stack before the last pass

listVars == <<l_pc, l_stack, l_chunk, l_open, l_line, l_pre>>

ListIdle ==
    /\ l_pc = "off" /\ l_stack = <<>> /\ l_chunk = <<>> /\ l_open = <<>>
    /\ l_line = <<>> /\ l_pre = <<>>

ListInit ==
    /\ l_pc = "loop" /\ l_stack = <<>> /\ l_chunk = <<>> /\ l_open = <<>>
    /\ l_line = <<>> /\ l_pre = <<>>

\* A pass of the while loop over a line that matches the item pattern.
ListLine ==
    \E indent \in 0..MaxIndent, marker \in ListMarkers :
        LET line == ListLineOf(indent, marker)
            st == ListStep(l_stack, <<>>, line)
        IN /\ l_pc = "loop"
           /\ ListMatch(Trim(line)).ok
           /\ l_stack' = st.stack
           /\ l_chunk' = st.html
           /\ l_open' = FoldOpen(l_open, st.html)
           /\ l_line' = line
           /\ l_pre' = l_stack
           /\ UNCHANGED l_pc

\* The loop ends at the end of lines or at a line that does not match; the
\* frames left are closed.
ListStop ==
    \E line \in {<<>>, <<"a">>, <<"-", " ">>} :
        /\ l_pc = "loop"
        /\ ~ListMatch(Trim(line)).ok
        /\ l_pc' = "done"
        /\ l_stack' = <<>>
        /\ l_chunk' = CloseAll(l_stack, <<>>)
        /\ l_open' = FoldOpen(l_open, CloseAll(l_stack, <<>>))
        /\ l_line' = line
        /\ l_pre' = l_stack

ListNext == ListLine \/ ListStop

\* Lines with and without a checkbox, at an indent of 0..MaxBoxIndent.
MaxBoxIndent == 1

ListBoxes == { <<>>, <<"[", " ", "]", " ">>, <<"[", "x", "]", " ">> }

ListBoxLineOf(indent, marker, box) == Spaces(indent) \o marker \o <<" ">> \o box \o <<"a">>

\* A pass of the while loop over a line that may carry a checkbox.
ListBoxLine ==
    \E indent \in 0..MaxBoxIndent, marker \in ListMarkers, box \in ListBoxes :
        LET line == ListBoxLineOf(indent, marker, box)
            st == ListStep(l_stack, <<>>, line)
        IN /\ l_pc = "loop"
           /\ ListMatch(Trim(line)).ok
           /\ l_stack' = st.stack
           /\ l_chunk' = st.html
           /\ l_open' = FoldOpen(l_open, st.html)
           /\ l_line' = line
           /\ l_pre' = l_stack
           /\ UNCHANGED l_pc

ListBoxNext == ListBoxLine \/ ListStop

\* ------------------------------------------------------------------------
\* Document parser (MarkdownParser.parse), with no plugins registered
\* ------------------------------------------------------------------------

\* '<div><br></div>'
EmptyDoc == <<"<div>", "<br>", "</div>">>

\* A mutation of flushParagraph: the buffered lines are not rendered.
FlushParagraphDrops(html, paragraphLines) == html

\* flushParagraph
FlushParagraph(html, paragraphLines) ==
    IF Len(paragraphLines) > 0
    THEN html \o <<"<div>">> \o parseInline(Join(paragraphLines, <<"\n">>)) \o <<"</div>">>
    ELSE html

\* The end of parse: what is returned for the html built.
FinalHtmlUnguarded(html) == html

FinalHtml(html) == IF html = <<>> THEN EmptyDoc ELSE html

\* The lines documents are made of.
LinePool ==
    { <<>>,
      <<"a">>,
      <<"-", " ">>,
      <<"-", " ", "a">>,
      <<" ", " ", "1", ".", " ", "[", "x", "]", " ", "a">>,
      <<"#", " ", "a">>,
      <<">", " ", "a">>,
      Fence,
      <<"-", "-", "-">> }

MaxLines == 3

Documents == {Join(ls, <<"\n">>) : ls \in UNION {[1..n -> LinePool] : n \in 1..MaxLines}}

VARIABLES
    p_pc,       \* "wait", "call", "loop", "done", "probed"; "off" outside Spec
    p_md,       \* markdown
    p_lines,    \* lines
    p_i,        \* i
    p_html,     \* html
    p_para,     \* paragraphLines
    p_ret,      \* the value returned
    p_tried,    \* the index the last iteration tried a block at, -1 before the first
    p_block,    \* what parseBlock returned in the last iteration
    p_fault,    \* the last iteration's parseBlock call faulted
    p_faults,   \* the indices at which a parseBlock call faulted
    p_seen,     \* the indices tried by an iteration or consumed by a block
    p_before,   \* html before the last iteration
    p_threw     \* an exception left parse
    
parseVars == <<p_pc, p_md, p_lines, p_i, p_html, p_para, p_ret, p_tried, p_block,
               p_fault, p_faults, p_seen, p_before, p_threw>>

ParseReset ==
    /\ p_lines = <<>> /\ p_i = 0 /\ p_html = <<>> /\ p_para = <<>> /\ p_ret = <<>>
    /\ p_tried = -1 /\ p_block = None /\ p_fault = FALSE /\ p_faults = {} /\ p_seen = {}
    /\ p_before = <<>> /\ p_threw = FALSE

ParseIdle == p_pc = "off" /\ p_md = <<>> /\ ParseReset

\* if (!markdown) return '<div><br></div>'; const lines = markdown.split('\n');
ParseCall ==
    /\ p_pc = "call"
    /\ IF p_md = <<>>
       THEN /\ p_pc' = "done"
            /\ p_ret' = EmptyDoc
            /\ UNCHANGED p_lines
       ELSE /\ p_pc' = "loop"
            /\ p_lines' = Split(p_md, "\n")
            /\ UNCHANGED p_ret
    /\ UNCHANGED <<p_md, p_i, p_html, p_para, p_tried, p_block, p_fault, p_faults, p_seen,
                   p_before, p_threw>>

\* One iteration of the for loop, its i++ included.  fault: the parseBlock
\* call of this iteration meets a simulated internal fault.
ParseLine ==
    \E fault \in BOOLEAN :
        LET line == p_lines[p_i + 1]
            r == parseBlock(p_lines, p_i, fault)
        IN /\ p_pc = "loop"
           /\ p_i < Len(p_lines)
           /\ p_tried' = p_i
           /\ p_block' = r
           /\ p_fault' = fault
           /\ p_faults' = IF fault THEN p_faults \cup {p_i} ELSE p_faults
           /\ p_before' = p_html
           /\ IF r.kind = "throw"
              THEN \* catch (error) { paragraphLines.push(line); }
                   /\ p_para' = Append(p_para, line)
                   /\ p_i' = p_i + 1
                   /\ p_seen' = p_seen \cup {p_i}
                   /\ UNCHANGED p_html
              ELSE IF r.kind = "block"
              THEN /\ p_html' = FlushParagraph(p_html, p_para) \o r.html
                   /\ p_para' = <<>>
                   /\ p_i' = r.lastIndex + 1
                   /\ p_seen' = p_seen \cup (p_i..r.lastIndex)
              ELSE IF Trim(line) = <<>>
              THEN /\ p_html' = FlushParagraph(p_html, p_para)
                   /\ p_para' = <<>>
                   /\ p_i' = p_i + 1
                   /\ p_seen' = p_seen \cup {p_i}
              ELSE /\ p_para' = Append(p_para, line)
                   /\ p_i' = p_i + 1
                   /\ p_seen' = p_seen \cup {p_i}
                   /\ UNCHANGED p_html
           /\ UNCHANGED <<p_pc, p_md, p_lines, p_ret, p_threw>>

\* After the loop: flushParagraph(); if (!html) return '<div><br></div>'; return html;
ParseReturn ==
    /\ p_pc = "loop"
    /\ p_i >= Len(p_lines)
    /\ p_pc' = "done"
    /\ p_html' = FlushParagraph(p_html, p_para)
    /\ p_para' = <<>>
    /\ p_ret' = FinalHtml(FlushParagraph(p_html, p_para))
    /\ UNCHANGED <<p_md, p_lines, p_i, p_tried, p_block, p_fault, p_faults, p_seen,
                   p_before, p_threw>>

\* A call of parseBlock on its own, at any index, inside the array or not.
BlockProbe ==
    \E idx \in -1..(MaxLines + 1), fault \in BOOLEAN :
        /\ p_pc = "call"
        /\ p_pc' = "probed"
        /\ p_lines' = Split(p_md, "\n")
        /\ p_tried' = idx
        /\ p_fault' = fault
        /\ p_block' = parseBlock(Split(p_md, "\n"), idx, fault)
        /\ p_threw' = (parseBlock(Split(p_md, "\n"), idx, fault).kind = "throw")
        /\ UNCHANGED <<p_md, p_i, p_html, p_para, p_ret, p_faults, p_seen, p_before>>

\* ------------------------------------------------------------------------
\* Markup trees and the markup-to-Markdown serializer (HtmlParser)
\* ------------------------------------------------------------------------

\* A text node and an element.  attr is the href of an A and the src of an IMG.
Txt(t) == [tag |-> "#text", cls |-> {}, attr |-> <<>>, alt |-> <<>>, kids |-> <<>>, text |-> t]

El(tag, cls, kids) ==
    [tag |-> tag, cls |-> cls, attr |-> <<>>, alt |-> <<>>, kids |-> kids, text |-> <<>>]

ElAttr(tag, attr, alt, kids) ==
    [tag |-> tag, cls |-> {}, attr |-> attr, alt |-> alt, kids |-> kids, text |-> <<>>]

RECURSIVE TextContent(_)
\* node.textContent
TextContent(node) ==
    IF node.tag = "#text" THEN node.text
    ELSE Flat([k \in 1..Len(node.kids) |-> TextContent(node.kids[k])])

RECURSIVE FindFirst(_, _)
\* node.querySelector(tag) over a list of children: <<>> or the one node found.
FindFirst(kids, tag) ==
    IF kids = <<>> THEN <<>>
    ELSE IF Head(kids).tag = tag THEN <<Head(kids)>>
    ELSE LET inner == FindFirst(Head(kids).kids, tag)
         IN IF inner # <<>> THEN inner ELSE FindFirst(Tail(kids), tag)

\* img.src: the URL resolved against the document.
ResolveUrl(src) == IF src # <<>> /\ src[1] = "http:" THEN src ELSE <<"base/">> \o src

RECURSIVE Collapse(_)
\* rawMarkdown.replace(/\n{3,}/g, '\n\n')
Collapse(s) ==
    IF s = <<>> THEN <<>>
    ELSE IF s[1] = "\n"
    THEN LET e == RunEnd(s, {"\n"}, 1)
         IN (IF e >= 3 THEN <<"\n", "\n">> ELSE Take(s, e)) \o Collapse(Drop(s, e))
    ELSE <<s[1]>> \o Collapse(Tail(s))

\* The normalization of HtmlParser.parse.
NormalizeTrimOnly(s) == Trim(s)

Normalize(s) == Trim(Collapse(s))

\* node.textContent.replace(/\n$/, '')
StripLastNewline(s) == IF s # <<>> /\ s[Len(s)] = "\n" THEN Take(s, Len(s) - 1) ELSE s

\* case 'PRE'
ConvertPreKeepsNewline(node) ==
    Fence \o <<"\n">> \o TextContent(node) \o <<"\n">> \o Fence \o <<"\n", "\n">>

ConvertPre(node) ==
    Fence \o <<"\n">> \o StripLastNewline(TextContent(node)) \o <<"\n">> \o Fence \o <<"\n", "\n">>

HeadingTags == {"H1", "H2", "H3", "H4"}

HeadingHashes(tag) ==
    IF tag = "H1" THEN <<"#">> ELSE IF tag = "H2" THEN <<"#", "#">>
    ELSE IF tag = "H3" THEN <<"#", "#", "#">> ELSE <<"#", "#", "#", "#">>

\* case 'FIGURE'
ConvertFigure(node) ==
    LET img == FindFirst(node.kids, "IMG")
        caption == FindFirst(node.kids, "FIGCAPTION")
        alt == IF caption # <<>> THEN TextContent(caption[1])
               ELSE IF img # <<>> THEN img[1].alt ELSE <<>>
    IN <<"!", "[">> \o alt \o <<"]", "(">>
       \o (IF img # <<>> THEN ResolveUrl(img[1].attr) ELSE <<>>) \o <<")", "\n", "\n">>

RECURSIVE Convert(_, _)
\* _convertNodeToMarkdown with no plugins registered.  inPre: node has a PRE
\* ancestor (node.closest('pre')).
Convert(node, inPre) ==
    IF node.tag = "#text" THEN node.text
    ELSE LET sub(k) == Convert(node.kids[k], inPre \/ node.tag = "PRE")
             childMarkdown == Flat([k \in 1..Len(node.kids) |-> sub(k)])
             pre == FindFirst(node.kids, "PRE")
             quoted == Flat([k \in 1..Len(node.kids) |-> Split(Trim(sub(k)), "\n")])
         IN CASE node.tag \in HeadingTags ->
                   HeadingHashes(node.tag) \o <<" ">> \o childMarkdown \o <<"\n", "\n">>
              [] node.tag = "STRONG" -> <<"*", "*">> \o childMarkdown \o <<"*", "*">>
              [] node.tag = "EM" -> <<"*">> \o childMarkdown \o <<"*">>
              [] node.tag = "DEL" -> <<"~", "~">> \o childMarkdown \o <<"~", "~">>
              [] node.tag = "MARK" -> <<"=", "=">> \o childMarkdown \o <<"=", "=">>
              [] node.tag = "CODE" ->
                   IF inPre THEN childMarkdown ELSE <<BT>> \o childMarkdown \o <<BT>>
              [] node.tag = "A" ->
                   <<"[">> \o childMarkdown \o <<"]", "(">> \o node.attr \o <<")">>
              [] node.tag = "BR" -> <<"\n">>
              [] node.tag = "HR" -> <<"\n", "-", "-", "-", "\n", "\n">>
              [] node.tag \in {"DIV", "P"} ->
                   IF "code-block-wrapper" \in node.cls
                   THEN (IF pre # <<>> THEN ConvertPre(pre[1]) ELSE <<>>)
                   ELSE childMarkdown \o <<"\n", "\n">>
              [] node.tag = "BLOCKQUOTE" ->
                   Join([k \in 1..Len(quoted) |-> QuoteMark \o quoted[k]], <<"\n">>)
                       \o <<"\n", "\n">>
              [] node.tag = "FIGURE" -> ConvertFigure(node)
              [] node.tag = "PRE" -> ConvertPre(node)
              [] OTHER -> childMarkdown

\* HtmlParser.parse(element)
HtmlParse(element) == Normalize(Convert(element, FALSE))

\* ------------------------------------------------------------------------
\* The markup string as the tree the editable surface holds (innerHTML)
\* ------------------------------------------------------------------------

\* Start tags without attributes the parsers write, with tag name and classes.
OpenToks ==
    { "<div>", "<div class=code-block-wrapper>", "<div class=checklist-content-wrapper>",
      "<h1>", "<h2>", "<h3>", "<h4>", "<blockquote>", "<figure>", "<figcaption>",
      "<ul>", "<ul class=checklist>", "<ol>", "<ol class=checklist>",
      "<li>", "<li class=checklist-item>", "<li class=checklist-item checked>",
      "<span>", "<pre>", "<code>", "<strong>", "<em>", "<del>", "<mark>",
      "<button class=copy-code-btn>", "<svg>" }

CloseToks ==
    { "</div>", "</h1>", "</h2>", "</h3>", "</h4>", "</blockquote>", "</figure>",
      "</figcaption>", "</ul>", "</ol>", "</li>", "</span>", "</pre>", "</code>",
      "</strong>", "</em>", "</del>", "</mark>", "</button>", "</svg>", "</a>" }

VoidToks == {"<br>", "<hr>", "<input type=checkbox>", "<input type=checkbox checked>"}

TagName(tok) ==
    CASE tok \in {"<div>", "<div class=code-block-wrapper>",
                  "<div class=checklist-content-wrapper>"} -> "DIV"
      [] tok = "<h1>" -> "H1" [] tok = "<h2>" -> "H2" [] tok = "<h3>" -> "H3"
      [] tok = "<h4>" -> "H4" [] tok = "<blockquote>" -> "BLOCKQUOTE"
      [] tok = "<figure>" -> "FIGURE" [] tok = "<figcaption>" -> "FIGCAPTION"
      [] tok \in {"<ul>", "<ul class=checklist>"} -> "UL"
      [] tok \in {"<ol>", "<ol class=checklist>"} -> "OL"
      [] tok \in {"<li>", "<li class=checklist-item>", "<li class=checklist-item checked>"} -> "LI"
      [] tok = "<span>" -> "SPAN" [] tok = "<pre>" -> "PRE" [] tok = "<code>" -> "CODE"
      [] tok = "<strong>" -> "STRONG" [] tok = "<em>" -> "EM" [] tok = "<del>" -> "DEL"
      [] tok = "<mark>" -> "MARK" [] tok = "<button class=copy-code-btn>" -> "BUTTON"
      [] tok = "<svg>" -> "SVG" [] tok = "<br>" -> "BR" [] tok = "<hr>" -> "HR"
      [] tok \in {"<input type=checkbox>", "<input type=checkbox checked>"} -> "INPUT"

TagClass(tok) ==
    CASE tok = "<div class=code-block-wrapper>" -> {"code-block-wrapper"}
      [] tok = "<div class=checklist-content-wrapper>" -> {"checklist-content-wrapper"}
      [] tok \in {"<ul class=checklist>", "<ol class=checklist>"} -> {"checklist"}
      [] tok = "<li class=checklist-item>" -> {"checklist-item"}
      [] tok = "<li class=checklist-item checked>" -> {"checklist-item", "checked"}
      [] tok = "<button class=copy-code-btn>" -> {"copy-code-btn"}
      [] tok = "<input type=checkbox checked>" -> {"checked"}
      [] OTHER -> {}

\* A character reference as the character it stands for.
DecodeTok(c) ==
    IF c = "&amp;" THEN "&" ELSE IF c = "&lt;" THEN "<" ELSE IF c = "&gt;" THEN ">" ELSE c

Decode(s) == [k \in 1..Len(s) |-> DecodeTok(s[k])]

\* A character appended to the children built so far: adjacent text is one node.
AppendText(acc, c) ==
    IF acc # <<>> /\ acc[Len(acc)].tag = "#text"
    THEN [acc EXCEPT ![Len(acc)] = Txt(acc[Len(acc)].text \o <<c>>)]
    ELSE Append(acc, Txt(<<c>>))

RECURSIVE BuildFrom(_, _, _)
\* The children read from position p up to the end tag that closes their
\* parent: [kids, next], next the position after that end tag.
BuildFrom(toks, p, acc) ==
    IF p > Len(toks) THEN [kids |-> acc, next |-> p]
    ELSE LET t == toks[p]
             sub == BuildFrom(toks, p + 1, <<>>)
             hrefEnd == IndexFrom(toks, " target=_blank>", p + 1)
             link == BuildFrom(toks, hrefEnd + 1, <<>>)
             srcEnd == IndexFrom(toks, " alt=", p + 1)
             imgEnd == IndexFrom(toks, "/img>", srcEnd + 1)
         IN IF t \in CloseToks THEN [kids |-> acc, next |-> p + 1]
            ELSE IF t \in OpenToks
            THEN BuildFrom(toks, sub.next, Append(acc, El(TagName(t), TagClass(t), sub.kids)))
            ELSE IF t \in VoidToks
            THEN BuildFrom(toks, p + 1, Append(acc, El(TagName(t), TagClass(t), <<>>)))
            ELSE IF t = "<a href=" /\ hrefEnd > 0
            THEN BuildFrom(toks, link.next,
                     Append(acc, ElAttr("A", Decode(SubSeq(toks, p + 1, hrefEnd - 1)), <<>>,
                                        link.kids)))
            ELSE IF t = "<img src=" /\ srcEnd > 0 /\ imgEnd > 0
            THEN BuildFrom(toks, imgEnd + 1,
                     Append(acc, ElAttr("IMG", Decode(SubSeq(toks, p + 1, srcEnd - 1)),
                                        Decode(SubSeq(toks, srcEnd + 1, imgEnd - 1)), <<>>)))
            ELSE BuildFrom(toks, p + 1, AppendText(acc, DecodeTok(t)))

\* this.element.innerHTML = html: the editor element with the markup's nodes.
SetInnerHtml(html) == El("DIV", {"dabir-editor"}, BuildFrom(html, 1, <<>>).kids)

\* ------------------------------------------------------------------------
\* Round trips: setContent(markdown) followed by getMarkdown()
\* ------------------------------------------------------------------------

Para(t) == El("DIV", {}, <<Txt(t)>>)

CodeBlockTree(t) ==
    El("DIV", {"code-block-wrapper"},
       << El("BUTTON", {"copy-code-btn"}, <<El("SVG", {}, <<>>), El("SPAN", {}, <<Txt(<<"copy">>)>>)>>),
          El("PRE", {}, <<El("CODE", {}, <<Txt(t)>>)>>) >>)

\* Blocks of the tag vocabulary the trees are made of.
BlockPool ==
    { Para(<<"a">>),
      Para(Fence),
      Para(<<"\t", "a", "\n", "\n">>),
      El("DIV", {}, <<El("STRONG", {}, <<Txt(<<"a">>)>>), Txt(<<" ", "b">>)>>),
      El("H1", {}, <<Txt(<<"a">>)>>),
      El("HR", {}, <<>>),
      El("BLOCKQUOTE", {}, <<Para(<<"a">>)>>),
      CodeBlockTree(<<"<", "a", "\n">>),
      El("UL", {}, <<El("LI", {}, <<Txt(<<"a">>)>>)>>) }

MaxBlocks == 2

Trees ==
    {El("DIV", {"dabir-editor"}, bs) : bs \in UNION {[1..n -> BlockPool] : n \in 1..MaxBlocks}}

\* The canonical inputs.
CorpusHeading == <<"#", " ", "Title">>

CorpusChecklist ==
    <<"-", " ", "[", " ", "]", " ", "todo", "\n",
      " ", " ", "-", " ", "[", "x", "]", " ", "done">>

CorpusFence == Fence \o <<"\n", "<", "script", ">", "\n">> \o Fence

CorpusLink == <<"[", "t", "]", "(", "u", "?", "a", "=", "1", "&", "b", "=", "2", ")">>

Corpus == {CorpusHeading, CorpusChecklist, CorpusFence, CorpusLink}

NoTree == Txt(<<>>)

VARIABLES
    r_pc,     \* "serialize", "parse", "done"; "off" outside Spec
    r_tree,   \* the markup tree a run starts from, NoTree when it starts from Markdown
    r_dom,    \* the tree the surface holds after setContent
    r_m2      \* what getMarkdown returns after setContent

roundVars == <<r_pc, r_tree, r_dom, r_m2>>

RoundIdle == r_pc = "off" /\ r_tree = NoTree /\ r_dom = NoTree /\ r_m2 = <<>>

\* A run starts from a Markdown document or from a markup tree.
DocInit ==
    /\ ParseReset
    /\ r_dom = NoTree /\ r_m2 = <<>>
    /\ \/ /\ p_md \in Documents \cup Corpus
          /\ p_pc = "call" /\ r_pc = "parse" /\ r_tree = NoTree
       \/ /\ r_tree \in Trees
          /\ p_md = <<>>
          /\ p_pc = "wait" /\ r_pc = "serialize"

\* m1 = serialize(t), handed to the document parser.
Serialize ==
    /\ r_pc = "serialize"
    /\ r_pc' = "parse"
    /\ p_md' = HtmlParse(r_tree)
    /\ p_pc' = "call"
    /\ UNCHANGED <<r_tree, r_dom, r_m2, p_lines, p_i, p_html, p_para, p_ret, p_tried, p_block,
                   p_fault, p_faults, p_seen, p_before, p_threw>>

\* The markup parse returned is put into the surface and serialized.
Reserialize ==
    /\ r_pc = "parse"
    /\ p_pc = "done"
    /\ r_pc' = "done"
    /\ r_dom' = SetInnerHtml(p_ret)
    /\ r_m2' = HtmlParse(SetInnerHtml(p_ret))
    /\ UNCHANGED <<r_tree, parseVars>>

DocNext ==
    \/ (ParseCall /\ UNCHANGED roundVars)
    \/ (ParseLine /\ UNCHANGED roundVars)
    \/ (ParseReturn /\ UNCHANGED roundVars)
    \/ (BlockProbe /\ UNCHANGED roundVars)
    \/ Serialize
    \/ Reserialize

\* ------------------------------------------------------------------------
\* Live line parser (parseLiveBlock)
\* ------------------------------------------------------------------------

\* \w
WordToks == {"a", "b", "x", "X", "U", "D", "Title", "todo", "done", "script"} \cup AsciiDigits

\* headingMatch[2].replace(/\s$/, '')
StripLastWs(s) == IF s # <<>> /\ s[Len(s)] \in WS THEN Take(s, Len(s) - 1) ELSE s

\* line.match(/^(\s*)([-*]|[\d and Eastern Arabic-Indic digits]+\.) (.*)/)
LiveListMatch(line) ==
    LET w == LeadingWs(line)
        e == RunEnd(line, ListDigits, w + 1)
    IN IF Len(line) >= w + 2 /\ line[w + 1] \in {"-", "*"} /\ line[w + 2] = " "
       THEN [ok |-> TRUE, marker |-> <<line[w + 1]>>, content |-> Drop(line, w + 2)]
       ELSE IF e >= w + 1 /\ Len(line) >= e + 2 /\ line[e + 1] = "." /\ line[e + 2] = " "
       THEN [ok |-> TRUE, marker |-> SubSeq(line, w + 1, e + 1), content |-> Drop(line, e + 2)]
       ELSE [ok |-> FALSE, marker |-> <<>>, content |-> <<>>]

\* listContent.match(/^\[([xX ])\]\s?/): the length matched, or 0.
LiveChecklistLen(content) ==
    IF Len(content) >= 3 /\ content[1] = "[" /\ content[2] \in {"x", "X", " "} /\ content[3] = "]"
    THEN (IF Len(content) >= 4 /\ content[4] \in WS THEN 4 ELSE 3)
    ELSE 0

LiveItemHtml(m) ==
    LET n == LiveChecklistLen(m.content)
        isChecked == m.content[2] \in {"x", "X"}
        type == MarkerType(m.marker)
    IN IF n > 0
       THEN << "<ul class=checklist>",
               IF isChecked THEN "<li class=checklist-item checked>"
                            ELSE "<li class=checklist-item>",
               "<div class=checklist-content-wrapper>",
               IF isChecked THEN "<input type=checkbox checked>" ELSE "<input type=checkbox>",
               "<span>" >>
            \o parseInline(Drop(m.content, n))
            \o <<"</span>", "</div>", "</li>", "</ul>">>
       ELSE <<OpenTag(type, FALSE), "<li>">> \o parseInline(m.content)
            \o <<"</li>", CloseTag(type)>>

\* line.trim().match(/^```(\w*)$/)
LiveFenceMatch(line) ==
    /\ StartsWith(Trim(line), Fence)
    /\ \A k \in 4..Len(Trim(line)) : Trim(line)[k] \in WordToks

LiveBlock(html, rule) == [kind |-> "block", html |-> html, rule |-> rule]

\* parseLiveBlock(line) for a string; nothing in its try block throws then.
parseLiveBlock(line) ==
    LET level == HeadingLevel(line)
        img == ImageMatch(line)
        lm == LiveListMatch(line)
        q == parseInline(Drop(line, 2))
    IN IF level > 0
       THEN LiveBlock(<<HeadingOpen(level)>>
                          \o parseInline(StripLastWs(Drop(line, level + 1)))
                          \o (IF EndsWith(line, <<" ">>) THEN <<" ">> ELSE <<>>)
                          \o <<HeadingClose(level)>>, "heading")
       ELSE IF Trim(line) = <<"-", "-", "-">>
       THEN LiveBlock(<<"<hr>">>, "rule")
       ELSE IF img.ok
       THEN LiveBlock(ImageHtml(img), "image")
       ELSE IF lm.ok
       THEN LiveBlock(LiveItemHtml(lm), "list")
       ELSE IF StartsWith(line, QuoteMark)
       THEN LiveBlock(<<"<blockquote>", "<div>">> \o (IF q = <<>> THEN <<"<br>">> ELSE q)
                          \o <<"</div>", "</blockquote>">>, "blockquote")
       ELSE IF LiveFenceMatch(line)
       THEN LiveBlock(CodeBlockHtml(<<"&#8203;">>), "code")
       ELSE None

\* The lines typed: up to MaxLiveSegs pieces of LiveSegs, concatenated.
MaxLiveSegs == 4

LiveSegs ==
    { <<"#">>, <<" ">>, <<"a">>, <<"\t">>, <<"-">>,
      <<"!", "[", "a", "]", "(", "s", ")">> }

LiveLines == {Flat(ss) : ss \in UNION {[1..n -> LiveSegs] : n \in 0..MaxLiveSegs}}

VARIABLES
    v_pc,      \* "typed", "live", "done"; "off" outside SpecLive
    v_line,    \* the line
    v_live,    \* what parseLiveBlock returned for it
    v_block    \* what parseBlock returned for it as a one-line document

liveVars == <<v_pc, v_line, v_live, v_block>>

LiveIdle == v_pc = "off" /\ v_line = <<>> /\ v_live = None /\ v_block = None

\* List-item lines: a marker, a space, a checkbox or none, and text or none.
LiveBoxes ==
    { <<>>, <<"[", " ", "]">>, <<"[", "x", "]">>, <<"[", "X", "]">>,
      <<"[", " ", "]", " ">>, <<"[", "x", "]", " ">>, <<"[", "X", "]", " ">> }

LiveListLines ==
    { Spaces(n) \o mk \o <<" ">> \o box \o tail :
        n \in 0..1, mk \in ListMarkers, box \in LiveBoxes, tail \in {<<>>, <<"a">>} }

LiveInit ==
    /\ v_pc = "typed" /\ v_line \in LiveLines \cup LiveListLines
    /\ v_live = None /\ v_block = None

\* The line is parsed as it is typed.
LiveParse ==
    /\ v_pc = "typed"
    /\ v_pc' = "live"
    /\ v_live' = parseLiveBlock(v_line)
    /\ UNCHANGED <<v_line, v_block>>

\* The same line is parsed by the block parser.
LiveFull ==
    /\ v_pc = "live"
    /\ v_pc' = "done"
    /\ v_block' = parseBlock(<<v_line>>, 0, FALSE)
    /\ UNCHANGED <<v_line, v_live>>

LiveNext == LiveParse \/ LiveFull

\* ------------------------------------------------------------------------
\* The serializer's default case with handlers registered (html2md)
\* ------------------------------------------------------------------------

\* Tags with a case of their own in the switch.
BuiltinTags ==
    HeadingTags \cup {"STRONG", "EM", "DEL", "MARK", "CODE", "A", "BR", "HR", "DIV", "P",
                      "BLOCKQUOTE", "FIGURE", "PRE"}

\* childMarkdown
ChildMarkdown(node) == Flat([k \in 1..Len(node.kids) |-> Convert(node.kids[k], FALSE)])

\* What a call of a handler can do: the plugin has no html2md (it is not
\* called), it throws, it returns nothing, the empty string, or Markdown.
HookOutcomes == {"absent", "throw", "none", "empty", "md"}

\* The Markdown handler k returns for a node.
HandlerMd(k, childMarkdown) == <<"@", DigitTok(k)>> \o childMarkdown

\* What handler k returned, as a string; <<>> when it returned nothing.
HandlerResult(outcome, k, childMarkdown) ==
    IF outcome = "md" THEN HandlerMd(k, childMarkdown) ELSE <<>>

\* if (markdown) return markdown;
HookClaims(markdown) == markdown # <<>>

\* The index the for loop goes on with after the catch block.
HookCatchEndsLoop(k, n) == n + 1

HookCatch(k, n) == k + 1

MaxHandlers == 3

HookNodes ==
    { El("UL", {}, <<El("LI", {}, <<Txt(<<"a">>)>>), El("LI", {}, <<Txt(<<"b">>)>>)>>),
      El("SPAN", {}, <<Txt(<<"a">>), El("STRONG", {}, <<Txt(<<"b">>)>>)>>),
      El("INPUT", {}, <<>>),
      El("EM", {}, <<Txt(<<"a">>)>>) }

VARIABLES
    h_pc,     \* "call", "hooks", "done"; "off" outside SpecHooks
    h_node,   \* node
    h_n,      \* the number of plugins registered
    h_k,      \* the position in editor.plugins.keys() of the plugin tried next
    h_log,    \* the plugins gone through for this node: [who, outcome]
    h_ret     \* the value returned

hookVars == <<h_pc, h_node, h_n, h_k, h_log, h_ret>>

HookIdle ==
    /\ h_pc = "off" /\ h_node = NoTree /\ h_n = 0 /\ h_k = 0 /\ h_log = <<>> /\ h_ret = <<>>

HookInit ==
    /\ h_pc = "call" /\ h_node \in HookNodes /\ h_n \in 0..MaxHandlers
    /\ h_k = 0 /\ h_log = <<>> /\ h_ret = <<>>

\* The switch: a built-in case returns, any other tag enters the default case.
HookEnter ==
    /\ h_pc = "call"
    /\ IF h_node.tag \in BuiltinTags
       THEN h_pc' = "done" /\ h_ret' = Convert(h_node, FALSE) /\ UNCHANGED h_k
       ELSE h_pc' = "hooks" /\ h_k' = 1 /\ UNCHANGED h_ret
    /\ UNCHANGED <<h_node, h_n, h_log>>

\* One pass of the for loop over the plugins.
HookTry ==
    \E outcome \in HookOutcomes :
        LET markdown == HandlerResult(outcome, h_k, ChildMarkdown(h_node))
        IN /\ h_pc = "hooks" /\ h_k <= h_n
           /\ h_log' = Append(h_log, [who |-> h_k, outcome |-> outcome])
           /\ IF outcome = "throw"
              THEN h_k' = HookCatch(h_k, h_n) /\ UNCHANGED <<h_pc, h_ret>>
              ELSE IF outcome \in {"none", "empty", "md"} /\ HookClaims(markdown)
              THEN h_pc' = "done" /\ h_ret' = markdown /\ UNCHANGED h_k
              ELSE h_k' = h_k + 1 /\ UNCHANGED <<h_pc, h_ret>>
           /\ UNCHANGED <<h_node, h_n>>

\* return childMarkdown;
HookDefault ==
    /\ h_pc = "hooks" /\ h_k > h_n
    /\ h_pc' = "done"
    /\ h_ret' = ChildMarkdown(h_node)
    /\ UNCHANGED <<h_node, h_n, h_k, h_log>>

HookNext == HookEnter \/ HookTry \/ HookDefault

\* ------------------------------------------------------------------------
\* The document parser with block handlers registered (markdownBlockParser)
\* ------------------------------------------------------------------------

\* What a pass of the plugin loop can meet: the plugin has no
\* markdownBlockParser (it is not called), the handler throws, returns
\* nothing, or returns a block.
PluginOutcomes == {"absent", "throw", "none", "block"}

\* The markup of a block returned by handler k.
PluginHtml(k) == <<"<plugin>", DigitTok(k), "</plugin>">>

\* The index the plugin loop goes on with after its catch block.
PluginCatchEndsLoop(k, n) == n + 1

PluginCatch(k, n) == k + 1

MaxPlugins == 2

MaxPluginLines == 2

PluginLinePool == { <<>>, <<"a">>, <<"#", " ", "a">> }

PluginDocuments == UNION {[1..n -> PluginLinePool] : n \in 1..MaxPluginLines}

VARIABLES
    g_pc,      \* "line", "done"; "off" outside SpecPlugins
    g_lines,   \* lines
    g_n,       \* the number of plugins registered
    g_i,       \* i
    g_k,       \* the position in editor.plugins.keys() of the plugin tried next
    g_new,     \* no parser has been tried on line i yet
    g_log,     \* the parsers tried on the last line worked on: [at, who, outcome, last],
               \* who = 0 for parseBlock
    g_html,    \* html
    g_para,    \* paragraphLines
    g_ret      \* the value returned

plugVars == <<g_pc, g_lines, g_n, g_i, g_k, g_new, g_log, g_html, g_para, g_ret>>

PluginIdle ==
    /\ g_pc = "off" /\ g_lines = <<>> /\ g_n = 0 /\ g_i = 0 /\ g_k = 0 /\ g_new = FALSE
    /\ g_log = <<>> /\ g_html = <<>> /\ g_para = <<>> /\ g_ret = <<>>

PluginInit ==
    /\ g_pc = "line" /\ g_lines \in PluginDocuments /\ g_n \in 0..MaxPlugins
    /\ g_i = 0 /\ g_k = 1 /\ g_new = TRUE
    /\ g_log = <<>> /\ g_html = <<>> /\ g_para = <<>> /\ g_ret = <<>>

\* One pass of the loop over the plugins, for line i.  A block ends the
\* iteration of the line loop (break, continue, i++).
PluginTry ==
    \E outcome \in PluginOutcomes, more \in 0..1 :
        LET lastIndex == g_i + more
            entry == [at |-> g_i, who |-> g_k, outcome |-> outcome,
                      last |-> IF outcome = "block" THEN lastIndex ELSE g_i]
        IN /\ g_pc = "line" /\ g_i < Len(g_lines) /\ g_k <= g_n
           /\ outcome = "block" \/ more = 0
           /\ g_log' = IF g_new THEN <<entry>> ELSE Append(g_log, entry)
           /\ IF outcome = "block"
              THEN /\ g_html' = FlushParagraph(g_html, g_para) \o PluginHtml(g_k)
                   /\ g_para' = <<>>
                   /\ g_i' = lastIndex + 1
                   /\ g_k' = 1
                   /\ g_new' = TRUE
              ELSE /\ g_k' = IF outcome = "throw" THEN PluginCatch(g_k, g_n) ELSE g_k + 1
                   /\ g_new' = FALSE
                   /\ UNCHANGED <<g_html, g_para, g_i>>
           /\ UNCHANGED <<g_pc, g_lines, g_n, g_ret>>

\* No plugin parsed the line: the built-in parser is tried, and the
\* iteration ends (i++).
PluginCore ==
    LET line == g_lines[g_i + 1]
        r == parseBlock(g_lines, g_i, FALSE)
        entry == [at |-> g_i, who |-> 0, outcome |-> r.kind,
                  last |-> IF r.kind = "block" THEN r.lastIndex ELSE g_i]
    IN /\ g_pc = "line" /\ g_i < Len(g_lines) /\ g_k > g_n
       /\ g_log' = IF g_new THEN <<entry>> ELSE Append(g_log, entry)
       /\ IF r.kind = "block"
          THEN /\ g_html' = FlushParagraph(g_html, g_para) \o r.html
               /\ g_para' = <<>>
               /\ g_i' = r.lastIndex + 1
          ELSE IF Trim(line) = <<>>
          THEN /\ g_html' = FlushParagraph(g_html, g_para)
               /\ g_para' = <<>>
               /\ g_i' = g_i + 1
          ELSE /\ g_para' = Append(g_para, line)
               /\ g_i' = g_i + 1
               /\ UNCHANGED g_html
       /\ g_k' = 1
       /\ g_new' = TRUE
       /\ UNCHANGED <<g_pc, g_lines, g_n, g_ret>>

\* After the loop.
PluginReturn ==
    /\ g_pc = "line" /\ g_i >= Len(g_lines)
    /\ g_pc' = "done"
    /\ g_html' = FlushParagraph(g_html, g_para)
    /\ g_para' = <<>>
    /\ g_ret' = FinalHtml(FlushParagraph(g_html, g_para))
    /\ UNCHANGED <<g_lines, g_n, g_i, g_k, g_new, g_log>>

PluginNext == PluginTry \/ PluginCore \/ PluginReturn

\* ------------------------------------------------------------------------
\* The editor: public methods, listeners, scheduled callbacks, destroy
\* ------------------------------------------------------------------------

RECURSIVE ParseFrom(_, _, _, _)
\* The line loop of MarkdownParser.parse, with no plugins, and its return.
ParseFrom(lines, i, html, paragraphLines) ==
    IF i >= Len(lines) THEN FinalHtml(FlushParagraph(html, paragraphLines))
    ELSE LET r == parseBlock(lines, i, FALSE)
         IN IF r.kind = "block"
            THEN ParseFrom(lines, r.lastIndex + 1,
                           FlushParagraph(html, paragraphLines) \o r.html, <<>>)
            ELSE IF Trim(lines[i + 1]) = <<>>
            THEN ParseFrom(lines, i + 1, FlushParagraph(html, paragraphLines), <<>>)
            ELSE ParseFrom(lines, i + 1, html, Append(paragraphLines, lines[i + 1]))

\* MarkdownParser.parse(markdown), for documents on which it returns.
parse(markdown) ==
    IF markdown = <<>> THEN EmptyDoc ELSE ParseFrom(Split(markdown, "\n"), 0, <<>>, <<>>)

\* if (this.isDestroyed) return ...
GuardedNever(isDestroyed) == FALSE

Guarded(isDestroyed) == isDestroyed

\* The listeners the handlers attach in their constructors.
DomListeners ==
    {"input", "keydown", "keyup", "click", "blur", "selectionchange", "paste", "copy"}

\* The callbacks the handlers schedule: the debounced save, the debounced
\* smart parse, the requestAnimationFrame block replacement and the
\* setTimeout checkbox update.
Callbacks == {"save", "smartParse", "raf", "checkbox"}

\* The callbacks a handler's destroy cancels.
Cancelled == {"save", "smartParse"}

PublicOps == {"use", "on", "getMarkdown", "getHTML", "setContent", "saveContent", "destroy"}

ItemOff == "<li class=checklist-item>"

ItemOn == "<li class=checklist-item checked>"

\* listItem.classList.toggle('checked', isChecked) on the first checklist item.
ToggleChecked(html) ==
    [k \in 1..Len(html) |->
        IF html[k] = ItemOff THEN ItemOn ELSE IF html[k] = ItemOn THEN ItemOff ELSE html[k]]

HasCheckbox(html) == \E k \in 1..Len(html) : html[k] \in {ItemOff, ItemOn}

\* The arguments of setContent: [content, format].
EdContents ==
    { [content |-> <<"a">>, format |-> "markdown"],
      [content |-> <<"#", " ", "a">>, format |-> "markdown"],
      [content |-> <<"-", " ", "[", " ", "]", " ", "a">>, format |-> "markdown"],
      [content |-> <<"<div>", "b", "</div>">>, format |-> "html"] }

MaxOps == 4

VARIABLES
    e_isDestroyed,  \* isDestroyed
    e_refs,         \* the editor's references (element, parser, events, ...) are set
    e_hrefs,        \* the handlers' references (editor, element) are set
    e_dom,          \* the listeners attached to the element and the document
    e_subs,         \* the number of listeners in events
    e_plugins,      \* the number of entries of plugins
    e_timers,       \* the callbacks scheduled and not yet run or cancelled
    e_html,         \* element.innerHTML of the surface
    e_stored,       \* the content in storage
    e_emits,        \* the number of events emitted so far
    e_n,            \* the number of method calls and DOM events so far
    e_op,           \* the last step
    e_ret,          \* the value the last method call returned
    e_threw,        \* the last method call threw
    e_failed,       \* a callback failed on a cleared reference
    e_late          \* a callback changed the surface after destroy

edVars == <<e_isDestroyed, e_refs, e_hrefs, e_dom, e_subs, e_plugins, e_timers, e_html,
            e_stored, e_emits, e_n, e_op, e_ret, e_threw, e_failed, e_late>>

EdIdle ==
    /\ e_isDestroyed = FALSE /\ e_refs = FALSE /\ e_hrefs = FALSE /\ e_dom = {}
    /\ e_subs = 0 /\ e_plugins = 0 /\ e_timers = {} /\ e_html = <<>> /\ e_stored = <<>>
    /\ e_emits = 0 /\ e_n = 0 /\ e_op = "off" /\ e_ret = <<>> /\ e_threw = FALSE
    /\ e_failed = FALSE /\ e_late = FALSE

\* After the constructor, with nothing in storage and no plugins in options.
EdInit ==
    /\ e_isDestroyed = FALSE /\ e_refs = TRUE /\ e_hrefs = TRUE /\ e_dom = DomListeners
    /\ e_subs = 0 /\ e_plugins = 0 /\ e_timers = {} /\ e_html = EmptyDoc /\ e_stored = <<>>
    /\ e_emits = 2 /\ e_n = 0 /\ e_op = "new" /\ e_ret = <<>> /\ e_threw = FALSE
    /\ e_failed = FALSE /\ e_late = FALSE

\* A method call begins.
EdCall(op) ==
    /\ e_n < MaxOps
    /\ e_n' = e_n + 1
    /\ e_op' = op

\* saveContent()
SaveContent ==
    /\ EdCall("saveContent")
    /\ e_ret' = <<>> /\ e_threw' = FALSE
    /\ IF Guarded(e_isDestroyed) \/ ~e_refs
       THEN UNCHANGED <<e_stored, e_emits>>
       ELSE e_stored' = e_html /\ e_emits' = e_emits + 1
    /\ UNCHANGED <<e_isDestroyed, e_refs, e_hrefs, e_dom, e_subs, e_plugins, e_timers, e_html,
                   e_failed, e_late>>

\* use(Plugin): the plugin is installed unless its name is registered; with
\* the references cleared the body throws inside its try block.
Use ==
    /\ EdCall("use")
    /\ e_ret' = <<>> /\ e_threw' = FALSE
    /\ IF Guarded(e_isDestroyed) \/ ~e_refs
       THEN UNCHANGED e_plugins
       ELSE \E known \in BOOLEAN : e_plugins' = IF known /\ e_plugins > 0 THEN e_plugins
                                                 ELSE e_plugins + 1
    /\ UNCHANGED <<e_isDestroyed, e_refs, e_hrefs, e_dom, e_subs, e_timers, e_html, e_stored,
                   e_emits, e_failed, e_late>>

\* on(event, listener): this.events.on outside any try block.
On ==
    /\ EdCall("on")
    /\ e_ret' = <<>>
    /\ IF Guarded(e_isDestroyed)
       THEN e_threw' = FALSE /\ UNCHANGED e_subs
       ELSE IF e_refs THEN e_threw' = FALSE /\ e_subs' = e_subs + 1
       ELSE e_threw' = TRUE /\ UNCHANGED e_subs
    /\ UNCHANGED <<e_isDestroyed, e_refs, e_hrefs, e_dom, e_plugins, e_timers, e_html, e_stored,
                   e_emits, e_failed, e_late>>

\* getMarkdown(): htmlParser.parse(element) inside a try block.
GetMarkdown ==
    /\ EdCall("getMarkdown")
    /\ e_threw' = FALSE
    /\ e_ret' = IF Guarded(e_isDestroyed) \/ ~e_refs THEN <<>>
                ELSE HtmlParse(SetInnerHtml(e_html))
    /\ UNCHANGED <<e_isDestroyed, e_refs, e_hrefs, e_dom, e_subs, e_plugins, e_timers, e_html,
                   e_stored, e_emits, e_failed, e_late>>

\* getHTML(): this.element.innerHTML outside any try block.
GetHTML ==
    /\ EdCall("getHTML")
    /\ IF Guarded(e_isDestroyed) THEN e_ret' = <<>> /\ e_threw' = FALSE
       ELSE IF e_refs THEN e_ret' = e_html /\ e_threw' = FALSE
       ELSE e_ret' = <<>> /\ e_threw' = TRUE
    /\ UNCHANGED <<e_isDestroyed, e_refs, e_hrefs, e_dom, e_subs, e_plugins, e_timers, e_html,
                   e_stored, e_emits, e_failed, e_late>>

\* setContent(content, format)
SetContent ==
    \E c \in EdContents :
        /\ EdCall("setContent")
        /\ e_ret' = <<>> /\ e_threw' = FALSE
        /\ IF Guarded(e_isDestroyed) \/ ~e_refs
           THEN UNCHANGED <<e_html, e_emits>>
           ELSE /\ e_html' = IF c.format = "markdown" THEN parse(c.content) ELSE c.content
                /\ e_emits' = e_emits + 1
        /\ UNCHANGED <<e_isDestroyed, e_refs, e_hrefs, e_dom, e_subs, e_plugins, e_timers,
                       e_stored, e_failed, e_late>>

\* destroy(): the handlers' destroy (cancel the debounced functions, remove
\* the listeners, clear the references), the plugins' destroy, events.clear(),
\* and the editor's references.
Destroy ==
    /\ EdCall("destroy")
    /\ e_ret' = <<>> /\ e_threw' = FALSE
    /\ IF Guarded(e_isDestroyed)
       THEN UNCHANGED <<e_isDestroyed, e_refs, e_hrefs, e_dom, e_subs, e_plugins, e_timers>>
       ELSE /\ e_isDestroyed' = TRUE
            /\ e_timers' = IF e_hrefs THEN e_timers \ Cancelled ELSE e_timers
            /\ e_dom' = IF e_hrefs THEN {} ELSE e_dom
            /\ e_hrefs' = FALSE
            /\ e_plugins' = 0
            /\ e_subs' = 0
            /\ e_refs' = FALSE
    /\ UNCHANGED <<e_html, e_stored, e_emits, e_failed, e_late>>

\* A DOM event reaches a handler whose listener is attached: input calls
\* the debounced save and emits input, keyup on a block line requests the
\* block replacement, a click on a checkbox sets the checkbox timer, and
\* selectionchange calls the debounced smart parse.
DomEvent ==
    \E ev \in {"input", "keyup", "click", "selectionchange"} :
        /\ ev \in e_dom
        /\ ev = "click" => HasCheckbox(e_html)
        /\ e_n < MaxOps
        /\ e_n' = e_n + 1
        /\ e_op' = ev
        /\ e_timers' = e_timers \cup
              {CASE ev = "input" -> "save" [] ev = "keyup" -> "raf"
                 [] ev = "click" -> "checkbox" [] OTHER -> "smartParse"}
        /\ e_emits' = IF ev = "input" THEN e_emits + 1 ELSE e_emits
        /\ UNCHANGED <<e_isDestroyed, e_refs, e_hrefs, e_dom, e_subs, e_plugins, e_html,
                       e_stored, e_ret, e_threw, e_failed, e_late>>

\* A scheduled callback runs.  A handler whose editor reference is cleared
\* fails on it, except in the smart parse, which has a try block; the
\* checkbox update changes the surface first.
Fire ==
    \E c \in e_timers :
        LET html == IF c = "raf" /\ e_hrefs THEN <<"<h1>", "a", "</h1>">>
                    ELSE IF c = "checkbox" THEN ToggleChecked(e_html)
                    ELSE e_html
            saves == c \in {"save", "raf", "checkbox"} /\ e_hrefs /\ ~e_isDestroyed /\ e_refs
        IN /\ e_timers' = e_timers \ {c}
           /\ e_op' = c
           /\ e_html' = html
           /\ e_late' = (e_late \/ (e_isDestroyed /\ html # e_html))
           /\ e_failed' = (e_failed \/ (c \in {"save", "raf", "checkbox"} /\ ~e_hrefs))
           /\ e_stored' = IF saves THEN html ELSE e_stored
           /\ e_emits' = IF saves THEN e_emits + 1 ELSE e_emits
           /\ UNCHANGED <<e_isDestroyed, e_refs, e_hrefs, e_dom, e_subs, e_plugins, e_n,
                          e_ret, e_threw>>

EdNext ==
    \/ SaveContent \/ Use \/ On \/ GetMarkdown \/ GetHTML \/ SetContent \/ Destroy
    \/ DomEvent \/ Fire

\* ------------------------------------------------------------------------
\* debounce(func, wait): the debounced function, its timer and cancel
\* ------------------------------------------------------------------------

MaxTime == 4
MaxCalls == 3

DebounceArgs == {"a", "b"}
DebounceWaits == {1, 2}
\* debounce.js and the copy in sanitizer.js.
DebounceVersions == {1, 2}

\* A mutation of clearTimeout: the timer stays scheduled.
clearTimeoutKeeps(timers, id) == timers

\* clearTimeout(id): the timer of that id is no longer scheduled; an id that
\* is undefined, null (0 here) or already run clears nothing.
clearTimeout(timers, id) == {t \in timers : t.id # id}

VARIABLES d_version, d_wait, d_now, d_timers, d_timeout, d_ids, d_calls, d_cancelled, d_log

debVars == <<d_version, d_wait, d_now, d_timers, d_timeout, d_ids, d_calls, d_cancelled, d_log>>

DebIdle ==
    /\ d_version = 0 /\ d_wait = 0 /\ d_now = 0 /\ d_timers = {} /\ d_timeout = 0
    /\ d_ids = 0 /\ d_calls = <<>> /\ d_cancelled = FALSE /\ d_log = <<>>

\* const f = debounce(func, wait): timeout is undefined, nothing is scheduled.
DebInit ==
    /\ d_version \in DebounceVersions /\ d_wait \in DebounceWaits
    /\ d_now = 0 /\ d_timers = {} /\ d_timeout = 0 /\ d_ids = 0
    /\ d_calls = <<>> /\ d_cancelled = FALSE /\ d_log = <<>>

\* executedFunction(...args): clear the pending timer, schedule later in wait ms.
executedFunction(arg) ==
    /\ Len(d_calls) < MaxCalls
    /\ d_ids' = d_ids + 1
    /\ d_timers' = clearTimeout(d_timers, d_timeout)
                     \cup {[id |-> d_ids + 1, due |-> d_now + d_wait, arg |-> arg,
                            call |-> Len(d_calls) + 1]}
    /\ d_timeout' = d_ids + 1
    /\ d_calls' = Append(d_calls, [arg |-> arg, at |-> d_now])
    /\ d_cancelled' = FALSE
    /\ UNCHANGED <<d_version, d_wait, d_now, d_log>>

\* later(), run by the timer no sooner than its due time: clear timeout, then
\* func(...args) with the arguments of the call that scheduled it.
later ==
    \E t \in d_timers :
        /\ t.due <= d_now
        /\ d_timers' = clearTimeout(d_timers \ {t}, d_timeout)
        /\ d_timeout' = IF d_version = 2 THEN 0 ELSE d_timeout
        /\ d_log' = Append(d_log, [arg |-> t.arg, at |-> d_now, call |-> t.call,
                                   last |-> Len(d_calls), cancelled |-> d_cancelled])
        /\ UNCHANGED <<d_version, d_wait, d_now, d_ids, d_calls, d_cancelled>>

\* executedFunction.cancel().
cancel ==
    /\ d_timers' = IF d_version = 2 /\ d_timeout = 0 THEN d_timers
                   ELSE clearTimeout(d_timers, d_timeout)
    /\ d_timeout' = IF d_version = 2 THEN 0 ELSE d_timeout
    /\ d_cancelled' = TRUE
    /\ UNCHANGED <<d_version, d_wait, d_now, d_ids, d_calls, d_log>>

\* One millisecond passes.
Tick ==
    /\ d_now < MaxTime
    /\ d_now' = d_now + 1
    /\ UNCHANGED <<d_version, d_wait, d_timers, d_timeout, d_ids, d_calls, d_cancelled, d_log>>

DebNext ==
    \/ \E arg \in DebounceArgs : executedFunction(arg)
    \/ later
    \/ cancel
    \/ Tick

\* ------------------------------------------------------------------------
\* sanitize, and the paths by which outside content reaches the surface
\* ------------------------------------------------------------------------

\* An image with an event handler attribute, one token.
EvilImg == "<img src=x onerror=e>"

\* bannedTags met in the markup modelled: the start tags of void elements,
\* and of elements removed with what they hold.
BannedVoidToks == {"<input type=checkbox>", "<input type=checkbox checked>"}

BannedOpenToks == {"<script>", "<button class=copy-code-btn>"}

BannedCloseOf(tok) == IF tok = "<script>" THEN "</script>" ELSE "</button>"

\* The attribute rules: event handler attributes are removed.
SanitizeAttrs(tok) == IF tok = EvilImg THEN "<img src=x>" ELSE tok

RECURSIVE SanitizeFrom(_, _, _)
\* The loop over the nodes: a banned element goes with its subtree, other
\* elements keep their place and lose the attributes the rules name.
SanitizeFrom(html, p, out) ==
    IF p > Len(html) THEN out
    ELSE IF html[p] \in BannedVoidToks THEN SanitizeFrom(html, p + 1, out)
    ELSE IF html[p] \in BannedOpenToks
    THEN LET c == IndexFrom(html, BannedCloseOf(html[p]), p + 1)
         IN IF c = 0 THEN out ELSE SanitizeFrom(html, c + 1, out)
    ELSE SanitizeFrom(html, p + 1, Append(out, SanitizeAttrs(html[p])))

\* sanitize(html)
sanitize(html) == IF html = <<>> THEN <<>> ELSE SanitizeFrom(html, 1, <<>>)

MaxEdits == 2

ChecklistLine == <<"-", " ", "[", "x", "]", " ", "a">>

\* Markdown from outside: given to setContent or pasted.
SurfaceMarkdown ==
    { <<>>, <<"a">>, <<EvilImg>>, ChecklistLine,
      Fence \o <<"\n", "a", "\n">> \o Fence,
      <<"<script>", "e", "</script>">> }

\* Markup from outside: stored content and setContent in html format.
SurfaceHtml ==
    { <<>>, <<"<div>", "a", "</div>">>, <<"<div>", EvilImg, "</div>">>,
      <<"<script>", "e", "</script>">> }

\* Lines typed into a block and converted by the live parser.
SurfaceLines == { <<"a">>, <<"#", " ", "a">>, <<"#", " ", EvilImg>>, ChecklistLine }

VARIABLES
    u_path,     \* "new", "load", "setMarkdown", "setHtml", "paste", "live"; "off" elsewhere
    u_src,      \* the outside content of the last operation
    u_written,  \* the markup the last operation put into the surface
    u_surface,  \* element.innerHTML
    u_n         \* operations after the load

surfVars == <<u_path, u_src, u_written, u_surface, u_n>>

SurfIdle ==
    u_path = "off" /\ u_src = <<>> /\ u_written = <<>> /\ u_surface = <<>> /\ u_n = 0

\* The constructor before _loadContent.
SurfInit ==
    u_path = "new" /\ u_src = <<>> /\ u_written = <<>> /\ u_surface = <<>> /\ u_n = 0

\* _loadContent()
LoadContent ==
    \E savedContent \in SurfaceHtml :
        /\ u_path = "new"
        /\ u_path' = "load"
        /\ u_src' = savedContent
        /\ u_written' = IF savedContent # <<>> THEN sanitize(savedContent) ELSE EmptyDoc
        /\ u_surface' = IF savedContent # <<>> THEN sanitize(savedContent) ELSE EmptyDoc
        /\ UNCHANGED u_n

\* setContent(content, format) of a live editor, nothing thrown.
SurfaceSetContent ==
    \E format \in {"markdown", "html"} :
        \E content \in (IF format = "markdown" THEN SurfaceMarkdown ELSE SurfaceHtml) :
            LET html == IF format = "markdown" THEN sanitize(parse(content))
                        ELSE sanitize(content)
            IN /\ u_path \notin {"off", "new"}
               /\ u_n < MaxEdits
               /\ u_n' = u_n + 1
               /\ u_path' = IF format = "markdown" THEN "setMarkdown" ELSE "setHtml"
               /\ u_src' = content
               /\ u_written' = html
               /\ u_surface' = html

\* ClipboardHandler.onPaste: the text is parsed and inserted at the cursor,
\* taken here to be at the end of the surface.
OnPaste ==
    \E text \in SurfaceMarkdown :
        /\ u_path \notin {"off", "new"}
        /\ u_n < MaxEdits
        /\ u_n' = u_n + 1
        /\ u_path' = "paste"
        /\ u_src' = text
        /\ u_written' = IF text # <<>> THEN parse(text) ELSE <<>>
        /\ u_surface' = IF text # <<>> THEN u_surface \o parse(text) ELSE u_surface

\* KeyboardHandler._tryToParseBlock and its animation frame callback: the
\* block holding the typed line, taken here to be a new block at the end of
\* the surface, is replaced by the element made from the live parser's markup.
TryToParseBlock ==
    \E lineText \in SurfaceLines :
        LET newHtml == parseLiveBlock(lineText)
            made == Trim(lineText) # <<>> /\ newHtml.kind = "block"
        IN /\ u_path \notin {"off", "new"}
           /\ u_n < MaxEdits
           /\ u_n' = u_n + 1
           /\ u_path' = "live"
           /\ u_src' = lineText
           /\ u_written' = IF made THEN newHtml.html ELSE <<>>
           /\ u_surface' = IF made THEN u_surface \o newHtml.html ELSE u_surface

SurfNext == LoadContent \/ SurfaceSetContent \/ OnPaste \/ TryToParseBlock

\* ------------------------------------------------------------------------
\* Raw mode of one formatted element (MouseHandler)
\* ------------------------------------------------------------------------

RawInlineTags == {"STRONG", "EM", "DEL", "MARK", "CODE"}

RawBlockTags == {"H1", "H2", "H3", "H4"}

\* The leading and the trailing syntax of _htmlToRawMarkdown.
RawPrefix(element) ==
    CASE element.tag = "STRONG" -> <<"*", "*">>
      [] element.tag = "EM" -> <<"*">>
      [] element.tag = "DEL" -> <<"~", "~">>
      [] element.tag = "MARK" -> <<"=", "=">>
      [] element.tag = "CODE" -> <<BT>>
      [] element.tag = "A" -> <<"[">>
      [] element.tag = "H1" -> <<"#", " ">>
      [] element.tag = "H2" -> <<"#", "#", " ">>
      [] element.tag = "H3" -> <<"#", "#", "#", " ">>
      [] OTHER -> <<"#", "#", "#", "#", " ">>

RawSuffix(element) ==
    IF element.tag = "A" THEN <<"]", "(">> \o element.attr \o <<")">>
    ELSE IF element.tag \in RawBlockTags THEN <<>>
    ELSE RawPrefix(element)

\* _htmlToRawMarkdown(element)
HtmlToRawMarkdown(element) ==
    [rawText |-> RawPrefix(element) \o TextContent(element) \o RawSuffix(element),
     prefixLength |-> Len(RawPrefix(element))]

\* newElement.textContent = rawText, read back as markup.
TextAsMarkup(text) == [k \in 1..Len(text) |-> EscapeTok(text[k])]

\* _revertActiveRawNode: the markup that replaces the raw node.
RevertMarkup(rawText, isBlock) ==
    IF ~isBlock THEN parseInline(rawText)
    ELSE LET newHtml == parseLiveBlock(Trim(rawText))
         IN IF newHtml.kind = "block" THEN newHtml.html
            ELSE <<"<div>">> \o (IF rawText = <<>> THEN <<"<br>">> ELSE TextAsMarkup(rawText))
                     \o <<"</div>">>

\* The texts and the children of the formatted elements tried.
RawTexts == { <<"a">>, <<"b">>, <<"a", "b">>, <<"a", " ", "b">> }

RawNestedTags == {"STRONG", "EM"}

RawKids(tag) ==
    {<<Txt(t)>> : t \in RawTexts}
        \cup (IF tag = "CODE" THEN {}
              ELSE {<<Txt(<<"a">>), El(n, {}, <<Txt(<<"b">>)>>)>> : n \in RawNestedTags \ {tag}})

RawElements ==
    UNION {{El(tag, {}, kids) : kids \in RawKids(tag)} : tag \in RawInlineTags \cup RawBlockTags}
        \cup {ElAttr("A", <<"u">>, <<>>, kids) : kids \in RawKids("A")}

VARIABLES
    w_pc,       \* "formatted", "raw", "reverted"; "off" outside SpecRawMode
    w_element,  \* the formatted element the cursor enters
    w_info,     \* markdownInfo
    w_nodes     \* the nodes in the element's place

rawVars == <<w_pc, w_element, w_info, w_nodes>>

RawIdle ==
    /\ w_pc = "off" /\ w_element = Txt(<<>>)
    /\ w_info = [rawText |-> <<>>, prefixLength |-> 0] /\ w_nodes = <<>>

RawInit ==
    /\ w_pc = "formatted" /\ w_element \in RawElements
    /\ w_info = [rawText |-> <<>>, prefixLength |-> 0] /\ w_nodes = <<w_element>>

\* _enterRawMode(element, range): the element's place holds the raw text.
EnterRawMode ==
    /\ w_pc = "formatted"
    /\ w_pc' = "raw"
    /\ w_info' = HtmlToRawMarkdown(w_element)
    /\ w_nodes' = IF w_element.tag \in RawBlockTags
                  THEN <<El(w_element.tag, {}, <<Txt(HtmlToRawMarkdown(w_element).rawText)>>)>>
                  ELSE <<Txt(HtmlToRawMarkdown(w_element).rawText)>>
    /\ UNCHANGED w_element

\* _revertActiveRawNode() with the raw text as it was written.
RevertActiveRawNode ==
    /\ w_pc = "raw"
    /\ w_pc' = "reverted"
    /\ w_nodes' = BuildFrom(RevertMarkup(TextContent(w_nodes[1]), w_nodes[1].tag # "#text"),
                            1, <<>>).kids
    /\ UNCHANGED <<w_element, w_info>>

RawNext == EnterRawMode \/ RevertActiveRawNode

\* ------------------------------------------------------------------------
\* MouseHandler: selection changes, blur and the debounced smart parse
\* ------------------------------------------------------------------------

\* One block holding text, a formatted element 1 with a formatted element 2
\* nested in it, and a formatted element 3.  A cursor position is -1 (outside
\* the editor), 0 (the block's own text) or the element whose text holds it.
SpanNodes == 1..3

SpanModes == {"fmt", "raw", "gone"}

\* parentElement.closest('strong, em, ...'): the innermost formatted element
\* around the cursor, 0 for none.  The raw text of element 2 lies in element 1.
Closest(cursor, mode) ==
    IF cursor \in SpanNodes /\ mode[cursor] = "fmt" THEN cursor
    ELSE IF cursor = 2 /\ mode[2] = "raw" /\ mode[1] = "fmt" THEN 1
    ELSE 0

\* A mutation of the test before raw mode is entered: it always passes.
NoActiveRawNodeUntested(activeRawNode) == TRUE

\* if (!this.activeRawNode)
NoActiveRawNode(activeRawNode) == activeRawNode = 0

\* _revertActiveRawNode(), on the handler's fields and the elements' modes.
Revert(st) ==
    IF st.active = 0 THEN st
    ELSE [st EXCEPT !.mode = [st.mode EXCEPT ![st.active] = "fmt"],
                    !.active = 0, !.ignore = TRUE, !.raf = TRUE]

\* _enterRawMode(element, range): the element becomes its raw text, which
\* holds the text of what was nested in it.
Enter(st, k) ==
    [st EXCEPT !.prior = st.active,
               !.mode = [j \in SpanNodes |->
                            IF j = k THEN "raw"
                            ELSE IF k = 1 /\ j = 2 THEN "gone"
                            ELSE st.mode[j]],
               !.active = k, !.ignore = TRUE, !.raf = TRUE]

\* _tryToParseInline(block): text nodes outside formatted elements that hold
\* syntax are replaced by their parsed markup.
TryToParseInline(st, cursor, collapsed) ==
    IF st.active # 0 \/ cursor = -1 \/ ~collapsed THEN st
    ELSE LET hit == {k \in SpanNodes :
                        st.mode[k] = "raw" /\ ~(k = 2 /\ st.mode[1] = "fmt")}
         IN IF hit = {} THEN st
            ELSE [st EXCEPT !.mode = [j \in SpanNodes |->
                                         IF j \in hit THEN "fmt" ELSE st.mode[j]],
                            !.rewrote = TRUE, !.ignore = TRUE, !.raf = TRUE]

\* onBlur()
Blur(st, cursor, collapsed) == TryToParseInline(Revert(st), cursor, collapsed)

\* onSelectionChange() with the selection at cursor.
SelectionChange(st, cursor, collapsed) ==
    IF st.ignore THEN st
    ELSE IF cursor = -1 THEN Blur(st, cursor, collapsed)
    ELSE LET s1 == IF st.active # 0 /\ st.active # cursor THEN Revert(st) ELSE st
             f == Closest(cursor, s1.mode)
         IN IF ~collapsed THEN Revert(s1)
            ELSE IF NoActiveRawNode(s1.active) /\ f # 0 THEN Enter(s1, f)
            ELSE [s1 EXCEPT !.smart = TRUE]

VARIABLES
    n_op,         \* the last event: "selectionchange", "blur", "smartParse", "raf"
    n_cursor,     \* selection.anchorNode, as a cursor position
    n_collapsed,  \* range.collapsed
    n_st          \* mode: the elements; active: activeRawNode (0 for null);
                  \* ignore: ignoreSelectionChange; raf, smart: the callbacks
                  \* pending; prior: activeRawNode when raw mode was last
                  \* entered; rewrote: a parse replaced raw text

mouseVars == <<n_op, n_cursor, n_collapsed, n_st>>

MouseIdle ==
    /\ n_op = "off" /\ n_cursor = -1 /\ n_collapsed = TRUE
    /\ n_st = [mode |-> [k \in SpanNodes |-> "gone"], active |-> 0, ignore |-> FALSE,
               raf |-> FALSE, smart |-> FALSE, prior |-> 0, rewrote |-> FALSE]

\* After the constructor: nothing in raw mode, no selection in the editor.
MouseInit ==
    /\ n_op = "new" /\ n_cursor = -1 /\ n_collapsed = TRUE
    /\ n_st = [mode |-> [k \in SpanNodes |-> "fmt"], active |-> 0, ignore |-> FALSE,
               raf |-> FALSE, smart |-> FALSE, prior |-> 0, rewrote |-> FALSE]

\* The selection moves and the selectionchange listener runs.
OnSelectionChange ==
    \E cursor \in {-1, 0} \cup {k \in SpanNodes : n_st.mode[k] # "gone"}, collapsed \in BOOLEAN :
        /\ n_op' = "selectionchange"
        /\ n_cursor' = cursor
        /\ n_collapsed' = collapsed
        /\ n_st' = SelectionChange(n_st, cursor, collapsed)

\* The blur listener runs.
OnBlur ==
    /\ n_op' = "blur"
    /\ n_st' = Blur(n_st, n_cursor, n_collapsed)
    /\ UNCHANGED <<n_cursor, n_collapsed>>

\* The debounced _smartParseCurrentBlock runs.
SmartParseCurrentBlock ==
    /\ n_st.smart
    /\ n_op' = "smartParse"
    /\ n_st' = IF n_st.active # 0 THEN [n_st EXCEPT !.smart = FALSE]
               ELSE TryToParseInline([n_st EXCEPT !.smart = FALSE], n_cursor, n_collapsed)
    /\ UNCHANGED <<n_cursor, n_collapsed>>

\* requestAnimationFrame(() => { this.ignoreSelectionChange = false; })
IgnoreReset ==
    /\ n_st.raf
    /\ n_op' = "raf"
    /\ n_st' = [n_st EXCEPT !.raf = FALSE, !.ignore = FALSE]
    /\ UNCHANGED <<n_cursor, n_collapsed>>

MouseNext == OnSelectionChange \/ OnBlur \/ SmartParseCurrentBlock \/ IgnoreReset

\* ------------------------------------------------------------------------
\* Specifications
\* ------------------------------------------------------------------------

vars == <<inlVars, listVars, parseVars, roundVars, liveVars, hookVars, plugVars, edVars,
         debVars, surfVars, rawVars, mouseVars>>

\* Documents parsed, trees and documents taken round the serializer.
Init == DocInit /\ InlIdle /\ ListIdle /\ LiveIdle /\ HookIdle /\ PluginIdle /\ EdIdle /\ DebIdle /\ SurfIdle /\ RawIdle /\ MouseIdle

Next == DocNext /\ UNCHANGED <<inlVars, listVars, liveVars, hookVars, plugVars, edVars, debVars, surfVars, rawVars, mouseVars>>

Spec == Init /\ [][Next]_vars

\* Calls of parseInline.
InitInline == InlInit /\ ListIdle /\ ParseIdle /\ RoundIdle /\ LiveIdle /\ HookIdle /\ PluginIdle /\ EdIdle /\ DebIdle /\ SurfIdle /\ RawIdle /\ MouseIdle

NextInline == InlNext /\ UNCHANGED <<listVars, parseVars, roundVars, liveVars, hookVars, plugVars, edVars, debVars, surfVars, rawVars, mouseVars>>

SpecInline == InitInline /\ [][NextInline]_vars

\* Calls of parseInline on texts with link, emphasis and strikethrough syntax.
InitInlineMarkup ==
    /\ InlMarkupInit /\ ListIdle /\ ParseIdle /\ RoundIdle /\ LiveIdle /\ HookIdle
    /\ PluginIdle /\ EdIdle /\ DebIdle /\ SurfIdle /\ RawIdle /\ MouseIdle

SpecInlineMarkup == InitInlineMarkup /\ [][NextInline]_vars

\* Calls of processListBlock.
InitList == ListInit /\ InlIdle /\ ParseIdle /\ RoundIdle /\ LiveIdle /\ HookIdle /\ PluginIdle /\ EdIdle /\ DebIdle /\ SurfIdle /\ RawIdle /\ MouseIdle

NextList == ListNext /\ UNCHANGED <<inlVars, parseVars, roundVars, liveVars, hookVars, plugVars, edVars, debVars, surfVars, rawVars, mouseVars>>

SpecList == InitList /\ [][NextList]_vars

\* Single lines given to the live parser and to the block parser.
InitLive == LiveInit /\ InlIdle /\ ListIdle /\ ParseIdle /\ RoundIdle /\ HookIdle /\ PluginIdle /\ EdIdle /\ DebIdle /\ SurfIdle /\ RawIdle /\ MouseIdle

NextLive == LiveNext /\ UNCHANGED <<inlVars, listVars, parseVars, roundVars, hookVars, plugVars, edVars, debVars, surfVars, rawVars, mouseVars>>

SpecLive == InitLive /\ [][NextLive]_vars

\* The serializer at an element, with handlers registered.
InitHooks == HookInit /\ InlIdle /\ ListIdle /\ ParseIdle /\ RoundIdle /\ LiveIdle /\ PluginIdle /\ EdIdle /\ DebIdle /\ SurfIdle /\ RawIdle /\ MouseIdle

NextHooks == HookNext /\ UNCHANGED <<inlVars, listVars, parseVars, roundVars, liveVars, plugVars, edVars, debVars, surfVars, rawVars, mouseVars>>

SpecHooks == InitHooks /\ [][NextHooks]_vars

\* The document parser with block handlers registered.
InitPlugins ==
    PluginInit /\ InlIdle /\ ListIdle /\ ParseIdle /\ RoundIdle /\ LiveIdle /\ HookIdle /\ EdIdle /\ DebIdle /\ SurfIdle /\ RawIdle /\ MouseIdle

NextPlugins ==
    PluginNext /\ UNCHANGED <<inlVars, listVars, parseVars, roundVars, liveVars, hookVars, edVars, debVars, surfVars, rawVars, mouseVars>>

SpecPlugins == InitPlugins /\ [][NextPlugins]_vars

\* The editor from its construction on.
InitEditor ==
    /\ EdInit /\ InlIdle /\ ListIdle /\ ParseIdle /\ RoundIdle /\ LiveIdle /\ HookIdle
    /\ PluginIdle /\ DebIdle /\ SurfIdle /\ RawIdle /\ MouseIdle

NextEditor ==
    /\ EdNext
    /\ UNCHANGED <<inlVars, listVars, parseVars, roundVars, liveVars, hookVars, plugVars,
                   debVars, surfVars, rawVars, mouseVars>>

SpecEditor == InitEditor /\ [][NextEditor]_vars

\* Calls of processListBlock over lines with and without checkboxes.
NextListBox ==
    /\ ListBoxNext
    /\ UNCHANGED <<inlVars, parseVars, roundVars, liveVars, hookVars, plugVars, edVars,
                   debVars, surfVars, rawVars, mouseVars>>

SpecListBox == InitList /\ [][NextListBox]_vars

\* A debounced function from its creation on.
InitDebounce ==
    /\ DebInit /\ InlIdle /\ ListIdle /\ ParseIdle /\ RoundIdle /\ LiveIdle /\ HookIdle
    /\ PluginIdle /\ EdIdle /\ SurfIdle /\ RawIdle /\ MouseIdle

NextDebounce ==
    /\ DebNext
    /\ UNCHANGED <<inlVars, listVars, parseVars, roundVars, liveVars, hookVars, plugVars,
                   edVars, surfVars, rawVars, mouseVars>>

SpecDebounce == InitDebounce /\ [][NextDebounce]_vars

\* The surface of an editor from its construction on.
InitSurface ==
    /\ SurfInit /\ InlIdle /\ ListIdle /\ ParseIdle /\ RoundIdle /\ LiveIdle /\ HookIdle
    /\ PluginIdle /\ EdIdle /\ DebIdle /\ RawIdle /\ MouseIdle

NextSurface ==
    /\ SurfNext
    /\ UNCHANGED <<inlVars, listVars, parseVars, roundVars, liveVars, hookVars, plugVars,
                   edVars, debVars, rawVars, mouseVars>>

SpecSurface == InitSurface /\ [][NextSurface]_vars

\* One formatted element taken into raw mode and back.
InitRawMode ==
    /\ RawInit /\ InlIdle /\ ListIdle /\ ParseIdle /\ RoundIdle /\ LiveIdle /\ HookIdle
    /\ PluginIdle /\ EdIdle /\ DebIdle /\ SurfIdle /\ MouseIdle

NextRawMode ==
    /\ RawNext
    /\ UNCHANGED <<inlVars, listVars, parseVars, roundVars, liveVars, hookVars, plugVars,
                   edVars, debVars, surfVars, mouseVars>>

SpecRawMode == InitRawMode /\ [][NextRawMode]_vars

\* The mouse handler from its construction on.
InitMouse ==
    /\ MouseInit /\ InlIdle /\ ListIdle /\ ParseIdle /\ RoundIdle /\ LiveIdle /\ HookIdle
    /\ PluginIdle /\ EdIdle /\ DebIdle /\ SurfIdle /\ RawIdle

NextMouse ==
    /\ MouseNext
    /\ UNCHANGED <<inlVars, listVars, parseVars, roundVars, liveVars, hookVars, plugVars,
                   edVars, debVars, surfVars, rawVars>>

SpecMouse == InitMouse /\ [][NextMouse]_vars

\* ------------------------------------------------------------------------
\* Properties
\* ------------------------------------------------------------------------

\* sub occurs in s.
Occurs(sub, s) == \E k \in 0..(Len(s) - Len(sub)) : SubSeq(s, k + 1, k + Len(sub)) = sub

RECURSIVE CodeSegments(_)
\* The contents of the inline-code elements of a markup string, in order.
CodeSegments(out) ==
    LET o == IndexFrom(out, "<code>", 1)
        c == IndexFrom(out, "</code>", o + 1)
    IN IF o = 0 \/ c = 0 THEN <<>>
       ELSE <<SubSeq(out, o + 1, c - 1)>> \o CodeSegments(Drop(out, c))

\* C1: in every iteration of the line loop of parse, the index taken from a
\* block result is at least the index the block was tried at, so that the
\* loop index moves forward; this includes a line made of a list marker and
\* a space.
C1_BlockIndexNotBehind ==
    (p_pc \in {"loop", "done"} /\ p_block.kind = "block") => p_block.lastIndex >= p_tried

\* C2: the stack of open lists never holds more than 5 frames, and a line
\* indented deeper than the 5th open level becomes an item of the deepest
\* open list, which stays 5 levels deep: the line is not dropped and the
\* list block goes on.
C2_DepthClamp ==
    /\ Len(l_stack) <= 5
    /\ Len(l_open) = Len(l_stack)
    /\ (l_pc = "loop" /\ Len(l_pre) = 5 /\ LeadingWs(l_line) > Top(l_pre).indent)
           => /\ Len(l_stack) = 5
              /\ Top(l_stack).indent >= Top(l_pre).indent
              /\ \A k \in 1..4 : l_stack[k] = l_pre[k]
              /\ EndsWith(l_chunk, <<"<li>", "a", "</li>">>)
              /\ Len(l_chunk) \in {3, 5}

C2_DeeperThanFifth ==
    l_pc = "loop" /\ Len(l_pre) = 5 /\ LeadingWs(l_line) = MaxIndent
        /\ Top(l_pre).indent < MaxIndent

\* C3: parse never returns the empty string; for empty input and for input
\* whose lines produce no markup it returns exactly <div><br></div>.
C3_NeverEmpty ==
    p_pc = "done"
        => /\ p_ret # <<>>
           /\ (p_md = <<>> \/ p_html = <<>>) => p_ret = EmptyDoc

C3_BlankLinesOnly == p_pc = "done" /\ p_md # <<>> /\ p_html = <<>> /\ p_ret = EmptyDoc

\* C4: parseInline returns the empty string for empty text without entering
\* the pipeline; for any other text no exception reaches the caller, and
\* when a step of the pipeline fails the value returned is the original text.
C4_InlineFailSafe ==
    /\ ~i_threw
    /\ (i_pc = "done" /\ i_text = <<>>) => (i_ret = <<>> /\ ~i_entered)
    /\ (i_pc = "done" /\ i_fault) => i_ret = i_text

C4_FaultAfterRewrite ==
    i_pc = "done" /\ i_fault /\ i_proc # <<>> /\ i_proc # i_text /\ i_ret = i_text

\* C5: parseBlock never throws; a fault while it examines lines[index], an
\* index outside lines included, yields none; inside parse a fault on one
\* line leaves the markup of the earlier lines as it was, consumes that line
\* only, and every line of the document is still parsed.
C5_BlockFaultContained ==
    /\ ~p_threw
    /\ (p_pc = "probed" /\ (p_fault \/ p_tried \notin 0..(Len(p_lines) - 1))) => p_block = None
    /\ (p_pc \in {"loop", "done"} /\ p_fault)
           => /\ p_block = None
              /\ StartsWith(p_html, p_before)
              /\ p_i = p_tried + 1
    /\ (p_pc = "done" /\ p_md # <<>>) => (0..(Len(p_lines) - 1)) \subseteq p_seen

C5_FaultThenRest ==
    /\ p_pc = "done" /\ r_tree = NoTree
    /\ 0 \in p_faults /\ Len(p_lines) = MaxLines
    /\ (0..(Len(p_lines) - 1)) \subseteq p_seen
    /\ Len(p_html) > 3

\* C6: the content of every backtick-delimited span of the text is in the
\* output of parseInline as an inline-code element holding that content
\* with &, < and > escaped once and nothing else, no formatting markup.
C6_CodeSpansAtomic ==
    (i_pc = "done" /\ ~i_fault)
        => \A k \in 1..Len(i_blocks) :
               Occurs(<<"<code>">> \o i_blocks[k] \o <<"</code>">>, i_ret)

\* C7: the restore step turns into inline-code markup exactly the spans
\* extracted in step 1, each with its own content, and nothing else of the
\* input, text that reads like a placeholder token included.
C7_RestoreExactlySpans ==
    (i_pc = "done" /\ ~i_fault /\ i_text # <<>>) => CodeSegments(i_ret) = i_blocks

\* C8: for every markup tree t, with m1 = serialize(t) and
\* m2 = serialize(parse(m1)), m2 equals m1.
C8_RoundTripStable ==
    (r_pc = "done" /\ r_tree # NoTree /\ p_faults = {}) => r_m2 = p_md

C10_LiveAgreesWithBlock ==
    (v_pc = "done" /\ \E r \in {v_live, v_block} :
                          r.kind = "block" /\ r.rule \in {"heading", "rule", "image"})
        => /\ v_live.kind = "block" /\ v_block.kind = "block"
           /\ v_live.rule = v_block.rule
           /\ v_live.html = v_block.html

\* C11: for every list-item line, the live parser and the list algorithm of
\* the document parser agree on checklist state: the line is a checklist
\* item in one iff it is in the other, and checked in one iff checked in
\* the other.
C11_ChecklistAgree ==
    (v_pc = "done" /\ v_live.kind = "block" /\ v_live.rule = "list"
         /\ v_block.kind = "block" /\ v_block.rule = "list")
        => LET chk == {"<li class=checklist-item>", "<li class=checklist-item checked>"}
               isItem(h) == \E k \in 1..Len(h) : h[k] \in chk
               isChecked(h) == \E k \in 1..Len(h) : h[k] = "<li class=checklist-item checked>"
           IN /\ isItem(v_live.html) <=> isItem(v_block.html)
              /\ isChecked(v_live.html) <=> isChecked(v_block.html)

\* C12: for every markup tree, the string HtmlParser.parse returns has no
\* run of 3 or more line breaks and no leading or trailing whitespace, and
\* the same normalization applied to it again leaves it unchanged.
C12_SerializedNormal ==
    LET normal(m) ==
            /\ ~Occurs(<<"\n", "\n", "\n">>, m)
            /\ m = <<>> \/ (m[1] \notin WS /\ m[Len(m)] \notin WS)
            /\ Normalize(m) = m
    IN /\ (r_tree # NoTree /\ r_pc \in {"parse", "done"}) => normal(p_md)
       /\ r_pc = "done" => normal(r_m2)

C12_RawHadRunsAndMargins ==
    /\ r_tree # NoTree /\ r_pc = "parse"
    /\ Occurs(<<"\n", "\n", "\n">>, Convert(r_tree, FALSE))
    /\ Convert(r_tree, FALSE)[1] \in WS
    /\ p_md # <<>>

\* C13 as stated: at a tag with no built-in mapping the handlers are tried
\* in registration order, and the first handler that returns a Markdown
\* string, the empty string included, determines the result.
C13_FirstStringWins ==
    (h_pc = "done" /\ h_node.tag \notin BuiltinTags)
        => \A j \in 1..Len(h_log) :
               (h_log[j].outcome \in {"empty", "md"}
                    /\ \A q \in 1..(j - 1) : h_log[q].outcome \notin {"empty", "md"})
                   => h_ret = HandlerResult(h_log[j].outcome, j, ChildMarkdown(h_node))

\* C13: at a tag with no built-in mapping the handlers are gone through in
\* registration order; the first one that returns a non-empty Markdown
\* string determines the result and ends the search; one that throws,
\* returns nothing or returns the empty string is passed over and the next
\* is tried; when none claims the tag the result is exactly the
\* concatenation of the serializations of the children.
C13_HookOrder ==
    /\ \A j \in 1..Len(h_log) : h_log[j].who = j /\ j <= h_n
    /\ \A j \in 1..(Len(h_log) - 1) : h_log[j].outcome # "md"
    /\ (h_pc = "hooks") => h_k = Len(h_log) + 1
    /\ (h_pc = "done" /\ h_node.tag \notin BuiltinTags)
           => IF h_log # <<>> /\ h_log[Len(h_log)].outcome = "md"
              THEN h_ret = <<"@", DigitTok(Len(h_log))>> \o ChildMarkdown(h_node)
              ELSE /\ Len(h_log) = h_n
                   /\ h_ret = Flat([k \in 1..Len(h_node.kids) |->
                                       Convert(h_node.kids[k], FALSE)])
                   /\ h_node.kids = <<>> \/ Occurs(TextContent(h_node.kids[1]), h_ret)

C13_ThrowThenClaimed ==
    /\ h_pc = "done" /\ Len(h_log) = 2
    /\ h_log[1].outcome = "throw" /\ h_log[2].outcome = "md"
    /\ h_ret = <<"@", "2", "a", "b">>

\* C14: for each line the block handlers are tried in registration order
\* before the built-in parser; the first that returns a result supplies the
\* markup and the next line index, and nothing else is tried on that line;
\* a handler that throws is passed over, and the next handler, or
\* parseBlock when none is left, is tried on the same line.
C14_HandlerOrder ==
    LET m == Len(g_log)
        handlers == IF m > 0 /\ g_log[m].who = 0 THEN m - 1 ELSE m
    IN /\ \A j \in 1..handlers : g_log[j].who = j /\ j <= g_n
       /\ \A j \in 1..m : g_log[j].at = g_log[1].at
       /\ \A j \in 1..(m - 1) : g_log[j].outcome \in {"absent", "throw", "none"}
       /\ (m > 0 /\ g_log[m].who = 0) => handlers = g_n
       /\ (g_pc = "line" /\ ~g_new)
              => /\ g_i = g_log[m].at
                 /\ g_log[m].who # 0 /\ g_log[m].outcome # "block"
                 /\ g_k = g_log[m].who + 1
       /\ (g_pc = "line" /\ g_new /\ m > 0)
              => /\ g_log[m].who = 0 \/ g_log[m].outcome = "block"
                 /\ g_i = g_log[m].last + 1
                 /\ g_log[m].who # 0 => EndsWith(g_html, PluginHtml(g_log[m].who))

C14_ThrowThenNextWins ==
    /\ g_pc = "line" /\ g_new /\ Len(g_log) = 2
    /\ g_log[1].outcome = "throw" /\ g_log[2].who = 2 /\ g_log[2].outcome = "block"
    /\ g_log[2].last = 1 /\ g_i = 2

\* C15: after destroy no listener of the editor or its handlers is attached,
\* and no callback scheduled before destroy (debounced save, debounced
\* smart parse, block replacement, checkbox update) later changes the
\* surface or fails on a cleared reference.
C15_DestroyReleasesAll ==
    e_isDestroyed
        => /\ e_dom = {} /\ e_subs = 0
           /\ e_timers \cap Cancelled = {}
           /\ ~e_failed /\ ~e_late

\* C16: a second destroy does nothing, and after destroy every public
\* method returns without effect and without throwing: getMarkdown and
\* getHTML return the empty string, and setContent, use, on and saveContent
\* change nothing and emit no event.
C16_InertAfterDestroy ==
    [][(e_isDestroyed /\ e_n' = e_n + 1 /\ e_op' \in PublicOps)
           => /\ ~e_threw' /\ e_ret' = <<>>
              /\ UNCHANGED <<e_isDestroyed, e_refs, e_hrefs, e_dom, e_subs, e_plugins,
                             e_timers, e_html, e_stored, e_emits, e_failed, e_late>>]_vars

C16_CalledAfterDestroy ==
    /\ e_isDestroyed /\ e_op = "getHTML" /\ e_n = 3
    /\ e_html # EmptyDoc /\ e_ret = <<>> /\ ~e_threw

\* C17: the function given to debounce runs only when wait milliseconds have
\* passed since the last call with no call in between, at most once for a
\* burst of calls, with the arguments of the last call of the burst, and
\* never between cancel() and the next call.
C17_DebounceContract ==
    \A i \in 1..Len(d_log) :
        /\ d_log[i].call = d_log[i].last
        /\ d_log[i].at >= d_calls[d_log[i].last].at + d_wait
        /\ d_log[i].arg = d_calls[d_log[i].last].arg
        /\ ~d_log[i].cancelled
        /\ \A j \in 1..Len(d_log) : d_log[j].call = d_log[i].call => j = i

\* Two calls less than wait apart with different arguments, then one run.
C17_BurstFiredOnce ==
    /\ Len(d_calls) = 2 /\ Len(d_log) = 1
    /\ d_calls[1].arg # d_calls[2].arg
    /\ d_calls[2].at < d_calls[1].at + d_wait
    /\ d_log[1].arg = d_calls[2].arg

\* C18: after the pass of the list loop over a line, the top frame of the
\* stack has the type (ul or ol) of the line's marker, every open list tag
\* has the type of its frame, and the item of the line is the last thing
\* emitted: an item always goes into a list of its own type.
C18_TopTypeIsLineType ==
    (l_pc = "loop" /\ l_line # <<>>)
        => LET type == MarkerType(ListMatch(Trim(l_line)).marker)
           IN /\ l_stack # <<>>
              /\ Top(l_stack).type = type
              /\ Len(l_open) = Len(l_stack)
              /\ \A k \in 1..Len(l_stack) :
                    l_open[k] \in {OpenTag(l_stack[k].type, FALSE), OpenTag(l_stack[k].type, TRUE)}
              /\ EndsWith(l_chunk, ItemHtml(ListMatch(Trim(l_line)).content))

\* A line that first closes a deeper list and then meets a list of the other
\* type at its own level.
C18_PopThenSwap ==
    /\ l_pc = "loop" /\ Len(l_pre) = 3 /\ Len(l_stack) = 2
    /\ LeadingWs(l_line) = l_pre[2].indent
    /\ l_pre[2].type # MarkerType(ListMatch(Trim(l_line)).marker)
    /\ Top(l_stack).type = MarkerType(ListMatch(Trim(l_line)).marker)

\* C19: an item is a checklist item exactly when the list it is emitted
\* into carries the checklist class, so that the items of one list are all
\* checklist items or none is.
C19_ChecklistUniform ==
    (l_pc = "loop" /\ l_line # <<>>)
        => (IsChecklist(ListMatch(Trim(l_line)).content)
               <=> Top(l_open) \in {OpenTag("ul", TRUE), OpenTag("ol", TRUE)})

\* C20: a line indented deeper than the top frame, with fewer than 5 frames
\* open, adds exactly one frame and closes nothing, whatever its marker type;
\* a line at the indent of the top frame with the other marker type closes
\* the top list and opens one of its own type, the depth unchanged.
C20_NestOrSwap ==
    (l_pc = "loop" /\ l_line # <<>> /\ l_pre # <<>>)
        => LET type == MarkerType(ListMatch(Trim(l_line)).marker)
               indent == LeadingWs(l_line)
           IN /\ (indent > Top(l_pre).indent /\ Len(l_pre) < MAX_DEPTH)
                    => /\ Len(l_stack) = Len(l_pre) + 1
                       /\ SubSeq(l_stack, 1, Len(l_pre)) = l_pre
                       /\ Head(l_chunk) = OpenTag(type, FALSE)
              /\ (indent = Top(l_pre).indent /\ type # Top(l_pre).type)
                    => /\ Len(l_stack) = Len(l_pre)
                       /\ Pop(l_stack) = Pop(l_pre)
                       /\ Top(l_stack) = [type |-> type, indent |-> indent]
                       /\ SubSeq(l_chunk, 1, 2) = <<CloseTag(Top(l_pre).type), OpenTag(type, FALSE)>>

\* The type of a list tag.
ListTagType(tag) == IF tag \in {"<ul>", "<ul class=checklist>", "</ul>"} THEN "ul" ELSE "ol"

RECURSIVE Lifo(_, _)
\* Reads html over the lists open (their types, innermost last): ok is false
\* when a closing list tag does not close the innermost open list.
Lifo(open, html) ==
    IF html = <<>> THEN [ok |-> TRUE, open |-> open]
    ELSE IF Head(html) \in ListOpenTags
    THEN Lifo(Append(open, ListTagType(Head(html))), Tail(html))
    ELSE IF Head(html) \in ListCloseTags
    THEN (IF open # <<>> /\ Top(open) = ListTagType(Head(html))
          THEN Lifo(Pop(open), Tail(html))
          ELSE [ok |-> FALSE, open |-> open])
    ELSE Lifo(open, Tail(html))

FrameTypes(stack) == [k \in 1..Len(stack) |-> stack[k].type]

\* C21: every closing list tag emitted closes the innermost list open at
\* that point, the lists left open are those of the stack, and when the loop
\* ends, which it does at the first line that is no list item, every list
\* opened has been closed and the stack is empty.
C21_ListsClosedLifo ==
    /\ l_pc \in {"loop", "done"}
           => /\ Lifo(FrameTypes(l_pre), l_chunk).ok
              /\ Lifo(FrameTypes(l_pre), l_chunk).open = FrameTypes(l_stack)
              /\ Len(l_open) = Len(l_stack)
    /\ l_pc = "done"
           => /\ l_stack = <<>> /\ l_open = <<>>
              /\ ~ListMatch(Trim(l_line)).ok
              /\ Len(l_chunk) = Len(l_pre)

\* The loop ends with three lists of alternating types open.
C21_ThreeClosedAtEnd ==
    /\ l_pc = "done" /\ FrameTypes(l_pre) = <<"ul", "ol", "ul">>
    /\ l_chunk = <<"</ul>", "</ol>", "</ul>">>

\* C22: a block returned by parseBlock(lines, index) has a lastIndex that is
\* the index of a line of the array at or after index, whatever the kind of
\* the block.
C22_LastIndexConsumed ==
    (p_pc = "probed" /\ p_block.kind = "block")
        => /\ p_tried <= p_block.lastIndex
           /\ p_block.lastIndex <= Len(p_lines) - 1

\* The buffered lines as one paragraph: nothing for an empty buffer.
ParagraphMarkup(paragraphLines) ==
    IF paragraphLines = <<>> THEN <<>>
    ELSE <<"<div>">> \o parseInline(Join(paragraphLines, <<"\n">>)) \o <<"</div>">>

\* C23: every step of parse keeps the order of the document: a recognized
\* block appends the buffered lines as one paragraph and then its own markup
\* and moves past the lines it consumed, a blank line appends the buffered
\* lines as one paragraph, any other line is added at the end of the buffer
\* with html untouched, and the return appends what is left in the buffer,
\* which is then empty.
C23_OrderKept ==
    [][(p_pc = "loop" /\ parseVars' # parseVars)
          => IF p_pc' = "done"
             THEN /\ p_i >= Len(p_lines)
                  /\ p_html' = p_html \o ParagraphMarkup(p_para)
                  /\ p_para' = <<>>
             ELSE IF p_block'.kind = "block"
             THEN /\ p_html' = p_html \o ParagraphMarkup(p_para) \o p_block'.html
                  /\ p_para' = <<>>
                  /\ p_i' = p_block'.lastIndex + 1
             ELSE IF Trim(p_lines[p_i + 1]) = <<>>
             THEN /\ p_html' = p_html \o ParagraphMarkup(p_para)
                  /\ p_para' = <<>>
                  /\ p_i' = p_i + 1
             ELSE /\ p_html' = p_html
                  /\ p_para' = Append(p_para, p_lines[p_i + 1])
                  /\ p_i' = p_i + 1]_vars

\* A paragraph, a heading and a paragraph, returned in that order.
C23_ParagraphBlockParagraph ==
    /\ p_pc = "done" /\ p_para = <<>>
    /\ p_lines = << <<"a">>, <<"#", " ", "a">>, <<"a">> >>
    /\ p_ret = <<"<div>", "a", "</div>", "<h1>", "a", "</h1>", "<div>", "a", "</div>">>

\* C24: in the text returned by parseInline no emphasis span has a * next
\* to either of its tags, inside or outside: the two * it was made from
\* touched no other *; and bold is replaced before italic, so that
\* **a*b*c** gives a bold span holding an italic span.
C24_ItalicDelimitersAlone ==
    /\ (i_pc = "done" /\ ~i_fault)
           => \A k \in 1..Len(i_ret) :
                 /\ i_ret[k] = "<em>"
                        => /\ (k = 1 \/ i_ret[k - 1] # "*")
                           /\ (k = Len(i_ret) \/ i_ret[k + 1] # "*")
                 /\ i_ret[k] = "</em>"
                        => /\ (k = 1 \/ i_ret[k - 1] # "*")
                           /\ (k = Len(i_ret) \/ i_ret[k + 1] # "*")
    /\ parseInline(<<"*", "*", "a", "*", "b", "*", "c", "*", "*">>)
           = <<"<strong>", "a", "<em>", "b", "</em>", "c", "</strong>">>

\* C25: after every line processed the indents of the frames grow strictly
\* from the bottom of the stack to the top, and the top frame is not
\* indented deeper than the line: the frames deeper than the line were
\* popped.
C25_IndentsIncrease ==
    (l_pc = "loop" /\ l_line # <<>>)
        => /\ \A k \in 1..(Len(l_stack) - 1) : l_stack[k].indent < l_stack[k + 1].indent
           /\ l_stack # <<>>
           /\ Top(l_stack).indent <= LeadingWs(l_line)

\* A line that closes at least two deeper lists.
C25_PoppedTwo ==
    /\ l_pc = "loop" /\ Len(l_pre) = 4 /\ Len(l_stack) = 2
    /\ LeadingWs(l_line) < l_pre[3].indent

\* The tags parseInline writes; the opening tag of a link is written as the
\* token <a href=, the address, and the token that ends the tag.
InlineOpenTags == {"<a href=", "<strong>", "<em>", "<del>", "<mark>", "<code>"}

InlineCloseTags == {"</a>", "</strong>", "</em>", "</del>", "</mark>", "</code>"}

InlineCloseOf(tag) ==
    CASE tag = "<a href=" -> "</a>"
      [] tag = "<strong>" -> "</strong>"
      [] tag = "<em>" -> "</em>"
      [] tag = "<del>" -> "</del>"
      [] tag = "<mark>" -> "</mark>"
      [] OTHER -> "</code>"

RECURSIVE Nested(_, _)
\* Reads html over the tags open, innermost last: every closing tag closes
\* the innermost open tag and nothing is left open at the end.
Nested(open, html) ==
    IF html = <<>> THEN open = <<>>
    ELSE IF Head(html) \in InlineOpenTags THEN Nested(Append(open, Head(html)), Tail(html))
    ELSE IF Head(html) \in InlineCloseTags
    THEN open # <<>> /\ InlineCloseOf(Top(open)) = Head(html) /\ Nested(Pop(open), Tail(html))
    ELSE Nested(open, Tail(html))

\* No tag between <a href= and the end of that opening tag.
HrefClean(html) ==
    \A k \in 1..Len(html) :
        html[k] = "<a href="
            => LET e == IndexFrom(html, " target=_blank>", k + 1)
               IN /\ e > 0
                  /\ \A j \in (k + 1)..(e - 1) : html[j] \notin InlineOpenTags \cup InlineCloseTags

\* C26: the text returned by parseInline is well formed: every tag written
\* is closed, tags are nested and not interleaved, and the address of a
\* link holds no tag.
C26_WellFormed ==
    (i_pc = "done" /\ ~i_fault) => (Nested(<<>>, i_ret) /\ HrefClean(i_ret))

\* C27: the markup an operation puts into the surface from outside content
\* is markup sanitize returned: sanitize finds nothing to remove in it.
\* This holds for stored content, setContent in both formats, pasted text
\* and lines converted by the live parser.
C27_SanitizedFirst ==
    u_path \in {"load", "setMarkdown", "setHtml", "paste", "live"}
        => sanitize(u_written) = u_written

IsStructureTok(t) ==
    t \in BannedVoidToks \cup {"<button class=copy-code-btn>", "</button>", "<pre>", "<code>"}

\* C28: after setContent in markdown format the surface holds the checkbox
\* inputs, with their checked state, and the copy buttons of the parser's
\* markup for the same text, in the same order.
C28_StructureIntact ==
    u_path = "setMarkdown"
        => SelectSeq(u_surface, IsStructureTok) = SelectSeq(parse(u_src), IsStructureTok)

\* C29: a formatted element taken into raw mode and reverted with no edit
\* is again the element it was, nested formatting included, and the
\* prefixLength of the raw token is the length of its leading marker: the
\* raw text starts with the marker and the element's text follows it.
C29_RawRoundTrip ==
    /\ w_pc = "raw"
           => /\ w_info.prefixLength = Len(RawPrefix(w_element))
              /\ StartsWith(w_info.rawText, RawPrefix(w_element) \o TextContent(w_element))
    /\ w_pc = "reverted" => w_nodes = <<w_element>>

\* C30: at most one element is in raw mode, and it is the one activeRawNode
\* names; raw mode is entered only while activeRawNode is null, the raw node
\* the cursor left having been reverted first; no inline parse replaces raw
\* text while a raw node is active.
C30_OneRawNode ==
    n_op # "off"
        => /\ Cardinality({k \in SpanNodes : n_st.mode[k] = "raw"}) <= 1
           /\ {k \in SpanNodes : n_st.mode[k] = "raw"}
                  = (IF n_st.active = 0 THEN {} ELSE {n_st.active})
           /\ n_st.prior = 0
           /\ ~n_st.rewrote

\* The debounced parse runs while the nested element is in raw mode, the
\* cursor in it, and leaves it alone.
C30_SmartParseWhileRaw ==
    /\ n_op = "smartParse" /\ n_st.active = 2 /\ n_cursor = 2
    /\ n_st.mode = [k \in SpanNodes |-> IF k = 2 THEN "raw" ELSE "fmt"]

====
